------------------------------ MODULE Gateway -------------------------------
(* The REST gateway (rest/): a request is matched against the routes of both    *)
(* API versions and decoded into the message of the RPC. A request is           *)
(*   [method, segments, body, query],                                          *)
(* its body Nil or a message, its query a set of <<parameter, value>>. Names    *)
(* stand for whole resource names, so that a path has the version, "queues",    *)
(* the queue and, for tasks, "tasks".                                           *)
EXTENDS Messages

CONSTANT JSONPaths    \* the proto spelling of each field path, by its JSON spelling

\* The bindings of the protos that the model uses, and the query parameters each has.
Bindings ==
    << [rpc |-> "GetQueue", method |-> "GET", path |-> <<"queues", "*">>, params |-> {"name"}],
       [rpc |-> "UpdateQueue", method |-> "PATCH", path |-> <<"queues", "*">>,
        params |-> {"queue.name", "updateMask", "update_mask"}],
       [rpc |-> "CreateTask", method |-> "POST", path |-> <<"queues", "*", "tasks">>,
        params |-> {"parent"}] >>

NewRoute(version, b) ==
    [version |-> version, rpc |-> b.rpc, method |-> b.method,
     segments |-> <<version>> \o b.path, params |-> b.params]

RoutesFor(version) == [i \in DOMAIN Bindings |-> NewRoute(version, Bindings[i])]

\* Handler: the routes of each service in turn.
Routes == RoutesFor("v2") \o RoutesFor("v2beta3")

Matches(rt, r) ==
    /\ rt.method = r.method
    /\ Len(rt.segments) = Len(r.segments)
    /\ \A i \in DOMAIN rt.segments :
          IF rt.segments[i] = "*" THEN r.segments[i] # "" ELSE r.segments[i] = rt.segments[i]

\* The first route that matches serves the request; without one it is not found.
Serves(rt, r) ==
    \E i \in DOMAIN Routes :
        /\ Routes[i] = rt /\ Matches(rt, r)
        /\ \A j \in 1 .. (i - 1) : ~Matches(Routes[j], r)

\* The variable every one of these paths binds.
PathName(r) == r.segments[3]

SystemParams == {"$alt", "alt", "key", "prettyPrint"}

MaskParams == {"updateMask", "update_mask"}

\* A parameter is a system one or a field of the request, in either spelling; a field
\* mask is written in JSON spelling, in which no path has an underscore.
QueryOK(rt, r) ==
    \A p \in r.query :
        \/ p[1] \in SystemParams
        \/ p[1] \in rt.params /\ (p[1] \in MaskParams => p[2] \subseteq DOMAIN JSONPaths)

-----------------------------------------------------------------------------
(* decode, for UpdateQueue: the message [queue, paths] is written three times.  *)

\* A mask, in proto spelling (the unmarshalling of assign).
FieldPaths(mask) == {JSONPaths[p] : p \in mask}

\* The body is the queue; without one the queue is empty.
BodyRead(r, empty) == [queue |-> IF r.body = Nil THEN empty ELSE r.body, paths |-> {}]

\* What a field may hold after parameters with these values were assigned to it, in the
\* order of a Go map.
LastWritten(values, old) == IF values = {} THEN {old} ELSE values

QueryValues(r, params) == {p[2] : p \in {p \in r.query : p[1] \in params}}

\* The messages the query parameters may leave of msg.
QuerySet(msg, r) ==
    {[queue |-> [msg.queue EXCEPT !.name = name], paths |-> paths] :
        name \in LastWritten(QueryValues(r, {"queue.name"}), msg.queue.name),
        paths \in LastWritten({FieldPaths(m) : m \in QueryValues(r, MaskParams)}, msg.paths)}

\* The variable of the path.
PathSet(msg, r) == [msg EXCEPT !.queue.name = PathName(r)]

\* Bug: the path is written before the query.
DecodeUpdateQueuePathFirst(rt, r, empty) == QuerySet(PathSet(BodyRead(r, empty), r), r)

\* Body, query and path, in this order.
DecodeUpdateQueue(rt, r, empty) == {PathSet(msg, r) : msg \in QuerySet(BodyRead(r, empty), r)}
=============================================================================
