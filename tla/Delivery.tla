------------------------------ MODULE Delivery ------------------------------
(* From the API to the request that is sent: clients of both API versions read  *)
(* and update queues, over gRPC or REST, and create tasks; each attempt copies  *)
(* its queue under the lock and builds its request from the copy later. This    *)
(* module follows what is configured and sent; when attempts happen is Queue's. *)
EXTENDS Dispatch, Gateway

CONSTANTS QueueNames,
          InitialQueues,    \* the queues made at startup
          Fresh,            \* Fresh[v]: the queue messages a client of v makes up
          Masks,            \* Masks[v]: the update masks it sends, as sets of paths
          Queries,          \* the query strings it sends over REST
          TaskMessages,     \* TaskMessages[v]: the tasks it creates
          TaskIds,
          DefaultRate, DefaultAttempts,
          MaxUpdates        \* bound: UpdateQueue calls

ASSUME DeliveryAssumption ==
    /\ InitialQueues \subseteq QueueNames /\ QueueNames \subseteq Strings
    /\ DefaultRate \in Int \ {0} /\ DefaultAttempts \in Int \ {0}
    /\ \A v \in Versions : /\ Fresh[v] \subseteq QueueMessages(v)
                            /\ \A m \in TaskMessages[v] :
                                  /\ m.deadline \in Int \union {Nil}
                                  /\ m.type = "http" => m.url \in URLs \union {Nil}

VARIABLES queues,      \* the engine's queues, Nil where there is none
          copy,        \* what a client has read and not yet written: [msg, seen] or Nil
          tasks,       \* tasks by id: [queue, core, msg, view] or Nil
          attempt,     \* the copy an attempt in flight took of its queue, or Nil
          sent,        \* the request just sent, with the task and target it is for, or Nil
          want,        \* history: what the last writer that named a field asked for
          lost,        \* history: the fields replaced since by one that did not name them
          last         \* history: the updates so far, and what the one just made was
                       \* about: the queue meant, the fields each mask sent is for, and
                       \* if it wrote back what was read

vars == <<queues, copy, tasks, attempt, sent, want, lost, last>>

Fields == {"rate", "retry", "routing", "override"}

ApplyQueueDefaults(q) ==
    [q EXCEPT !.rate = IF @ = 0 THEN DefaultRate ELSE @,
              !.retry.maxAttempts = IF @ = 0 THEN DefaultAttempts ELSE @]

\* A queue EnsureQueue makes at startup.
EnsuredQueue ==
    ApplyQueueDefaults([state |-> "RUNNING", rate |-> 0, routing |-> Nil, override |-> Nil,
                        retry |-> [maxAttempts |-> 0, maxRetryDuration |-> 0],
                        pull |-> FALSE, taskTTL |-> 0])

Init ==
    /\ queues = [n \in QueueNames |-> IF n \in InitialQueues THEN EnsuredQueue ELSE Nil]
    /\ copy = [v \in Versions |-> Nil]
    /\ tasks = [i \in TaskIds |-> Nil]
    /\ attempt = [i \in TaskIds |-> Nil]
    /\ sent = Nil
    /\ want = [n \in QueueNames |->
                  [rate |-> DefaultRate, retry |-> DefaultAttempts, routing |-> Nil, override |-> Nil]]
    /\ lost = [n \in QueueNames |-> {}]
    /\ last = [count |-> 0, name |-> Nil, scopes |-> {}, back |-> FALSE]

-----------------------------------------------------------------------------
(* What clients ask for, in the terms of the API.                              *)

\* The fields an API version has, and those a mask names in it.
Has(v) == IF v = "v2" THEN Fields \ {"override"} ELSE Fields

Named(v, paths) ==
    {f \in Has(v) :
        CASE f = "rate" -> "rate_limits" \in paths
          [] f = "retry" -> "retry_config" \in paths
          [] f = "override" -> "http_target" \in paths
          [] f = "routing" -> IF v = "v2" THEN "app_engine_routing_override" \in paths
                                          ELSE paths \intersect AppEnginePaths # {}}

\* What an update with a mask is for: the fields it names, or the whole queue.
Scope(v, paths) == IF Named(v, paths) = {} THEN Fields ELSE Named(v, paths)

Asked(v, m, f) ==
    CASE f = "rate" -> IF m.rate \in {Nil, 0} THEN DefaultRate ELSE m.rate
      [] f = "retry" -> IF m.retry = Nil \/ m.retry.maxAttempts = 0 THEN DefaultAttempts
                                                                    ELSE m.retry.maxAttempts
      [] f = "routing" -> m.routing
      [] f = "override" -> IF v = "v2" THEN Nil ELSE m.target

-----------------------------------------------------------------------------
(* Queues.                                                                     *)

\* Engine.UpdateQueue: the queue it leaves. No field named means every field; type,
\* TTL and state are only taken from the message that creates the queue.
Updated(old, q, fields) ==
    ApplyQueueDefaults(
        IF old = Nil THEN q
        ELSE [f \in DOMAIN q |->
                 IF f \in (IF fields = {} THEN Fields ELSE fields) THEN q[f] ELSE old[f]])

\* No update is made.
Quiet == last' = [last EXCEPT !.name = Nil, !.scopes = {}, !.back = FALSE]

GetQueue(v, n) ==
    /\ queues[n] # Nil
    /\ copy' = [copy EXCEPT ![v] = [msg |-> QueueFromCore(v, n, queues[n]), seen |-> queues[n]]]
    /\ sent' = Nil /\ Quiet
    /\ UNCHANGED <<queues, tasks, attempt, want, lost>>

\* UpdateQueue of the v2 and v2beta3 servers, with the history of who asked for what.
\* The caller means the queue n and sent masks with these scopes.
UpdateQueue(v, n, scopes, m, paths) ==
    LET name == m.name
        named == IF paths = {} THEN Has(v) ELSE Named(v, paths)
        whole == paths = {} \/ Named(v, paths) = {}
        new == queues[name] = Nil
    IN  /\ name \in QueueNames
        /\ queues' = [queues EXCEPT ![name] =
                         Updated(@, QueueToCore(v, m), QueueFields(v, paths))]
        /\ want' = [want EXCEPT ![name] = [f \in Fields |->
                       IF new \/ f \in named THEN Asked(v, m, f) ELSE @[f]]]
        /\ lost' = [lost EXCEPT ![name] =
                       IF new THEN {}
                       ELSE (@ \ named) \union (IF whole THEN Fields \ named ELSE {})]
        /\ last' = [count |-> last.count + 1, name |-> n, scopes |-> scopes,
                    back |-> /\ copy[v] # Nil /\ m = copy[v].msg /\ copy[v].seen = queues[name]
                             /\ v = "v2beta3" \/ ~whole]
        /\ copy' = [copy EXCEPT ![v] = Nil]
        /\ sent' = Nil
        /\ UNCHANGED <<tasks, attempt>>

Writes(v) == Fresh[v] \union (IF copy[v] = Nil THEN {} ELSE {copy[v].msg})

UpdateQueueGRPC(v) ==
    /\ last.count < MaxUpdates
    /\ \E m \in Writes(v), paths \in Masks[v] :
          UpdateQueue(v, m.name, {Scope(v, paths)}, m, paths)

\* A message without a field set, as it is made for a request without a body.
EmptyQueue(v) ==
    IF v = "v2"
    THEN [name |-> "", state |-> "UNSPECIFIED", rate |-> Nil, retry |-> Nil, routing |-> Nil]
    ELSE [name |-> "", state |-> "UNSPECIFIED", rate |-> Nil, retry |-> Nil, routing |-> Nil,
          target |-> Nil, pull |-> FALSE, taskTTL |-> Nil]

\* What the masks in a query string are for, in the API version of the path.
Scopes(v, query) ==
    LET masks == {p[2] : p \in {p \in query : p[1] \in MaskParams}}
    IN  {Scope(v, {JSONPaths[p] : p \in mask}) : mask \in IF masks = {} THEN {{}} ELSE masks}

UpdateQueueREST(v) ==
    /\ last.count < MaxUpdates
    /\ \E n \in QueueNames, body \in Writes(v) \union {Nil}, query \in Queries :
          LET r == [method |-> "PATCH", segments |-> <<v, "queues", n>>, body |-> body, query |-> query]
          IN  \E i \in DOMAIN Routes :
                  /\ Serves(Routes[i], r) /\ Routes[i].rpc = "UpdateQueue" /\ QueryOK(Routes[i], r)
                  /\ \E d \in DecodeUpdateQueue(Routes[i], r, EmptyQueue(v)) :
                         UpdateQueue(Routes[i].version, n, Scopes(v, query), d.queue, d.paths)

-----------------------------------------------------------------------------
(* Tasks.                                                                      *)

\* validateCreateTask, then the queue is looked up. An id that is taken is refused.
CreateTask(v, n, i) ==
    \E m \in TaskMessages[v] :
        /\ ValidTask(TaskToCore(v, m))
        /\ queues[n] # Nil
        /\ tasks[i] = Nil
        /\ tasks' = [tasks EXCEPT ![i] = [queue |-> n, core |-> TaskToCore(v, m), msg |-> m, view |-> "made"]]
        /\ sent' = Nil /\ Quiet
        /\ UNCHANGED <<queues, copy, attempt, want, lost>>

\* A client reads a task, in the BASIC or the FULL view, and creates it again; the one
\* it read is deleted, to keep the model small.
RecreateTask(v, i) ==
    /\ tasks[i] # Nil /\ attempt[i] = Nil
    /\ \E view \in {"BASIC", "FULL"} :
          LET m == TaskFromCore(v, tasks[i].core, view = "FULL")
          IN  /\ ValidTask(TaskToCore(v, m))
              /\ tasks' = [tasks EXCEPT ![i] =
                              [queue |-> tasks[i].queue, core |-> TaskToCore(v, m), msg |-> m, view |-> view]]
    /\ sent' = Nil /\ Quiet
    /\ UNCHANGED <<queues, copy, attempt, want, lost>>

\* attempt takes its copy of the queue; schedule and RunTask leave pull tasks alone.
SnapshotAttempt(i) ==
    /\ tasks[i] # Nil /\ attempt[i] = Nil
    /\ tasks[i].core.target.type # "pull" /\ ~queues[tasks[i].queue].pull
    /\ attempt' = [attempt EXCEPT ![i] =
                      [queue |-> queues[tasks[i].queue], target |-> want[tasks[i].queue].override,
                       known |-> "override" \notin lost[tasks[i].queue]]]
    /\ sent' = Nil /\ Quiet
    /\ UNCHANGED <<queues, copy, tasks, want, lost>>

\* The task stays, for a retry, or is done.
Attempted(i) ==
    /\ attempt' = [attempt EXCEPT ![i] = Nil]
    /\ tasks' \in {tasks, [tasks EXCEPT ![i] = Nil]}
    /\ Quiet
    /\ UNCHANGED <<queues, copy, want, lost>>

Send(i) ==
    /\ attempt[i] # Nil
    /\ \E req \in BuildRequest(attempt[i].queue, tasks[i].core) :
          sent' = [req |-> req, task |-> tasks[i].msg, target |-> attempt[i].target,
                   known |-> attempt[i].known]
    /\ Attempted(i)

\* buildRequest fails: the attempt ends with INVALID_ARGUMENT and nothing is sent.
BuildFails(i) ==
    /\ attempt[i] # Nil
    /\ BuildRequest(attempt[i].queue, tasks[i].core) = {}
    /\ sent' = Nil
    /\ Attempted(i)

Next ==
    \/ \E v \in Versions, n \in QueueNames :
          GetQueue(v, n) \/ \E i \in TaskIds : CreateTask(v, n, i)
    \/ \E v \in Versions : UpdateQueueGRPC(v) \/ UpdateQueueREST(v)
    \/ \E v \in Versions, i \in TaskIds : RecreateTask(v, i)
    \/ \E i \in TaskIds : SnapshotAttempt(i) \/ Send(i) \/ BuildFails(i)

Spec == Init /\ [][Next]_vars

-----------------------------------------------------------------------------
(* Properties.                                                                 *)

\* Every field of a queue is what the last client that named it, of whichever API
\* version, asked for, unless an update without a mask it can use came in between: a
\* client that names its fields undoes no one else's (UpdateQueue, v2QueueFields,
\* v2beta3QueueFields).
FieldsAsWritten ==
    \A n \in QueueNames : queues[n] # Nil =>
        \A f \in Fields \ lost[n] :
            CASE f = "retry" -> queues[n].retry.maxAttempts = want[n].retry
              [] f = "override" -> queues[n].override = HTTPOverrideToCore(want[n].override)
              [] OTHER -> queues[n][f] = want[n][f]

\* A queue that is read and written back as it is does not change: with v2beta3
\* whatever the mask, with v2 with a mask of its fields (the conversions from and to the
\* neutral types undo each other).
QueueRoundTrips ==
    [][last'.count # last.count /\ last'.back => queues' = queues]_vars

\* A client that reads a task and creates it again asks for the same delivery, in
\* either API version; only the BASIC view of an App Engine task loses its body.
TaskRoundTrips ==
    [][\A i \in TaskIds : tasks[i] # Nil /\ tasks'[i] # Nil /\ tasks'[i] # tasks[i] =>
          tasks'[i].core = IF tasks[i].core.target.type = "appengine" /\ tasks'[i].view = "BASIC"
                           THEN [tasks[i].core EXCEPT !.target.body = 0] ELSE tasks[i].core]_vars

\* An update changes the queue its caller named and no other: over REST the one in the
\* path, whatever the names in the body and in the query (route.decode). Of a queue that is
\* there it changes only what one of the masks sent, in either spelling, is for in the API
\* version of the path; two masks are never merged.
UpdatesStayInScope ==
    [][\A n \in QueueNames : queues'[n] # queues[n] =>
          /\ last'.name = n
          /\ queues[n] # Nil =>
                \E scope \in last'.scopes :
                    \A f \in DOMAIN queues[n] \ scope : queues'[n][f] = queues[n][f]]_vars

Enforced(target) == target # Nil /\ target.uri # Nil /\ target.uri.enforce = "ALWAYS"

\* The URI component a target asks for, "" if none.
Asks(o, c) ==
    IF o = Nil \/ o.uri = Nil THEN ""
    ELSE CASE c = "scheme" -> Scheme(o.uri.scheme)
           [] c = "port" -> IF o.uri.port = Nil THEN "" ELSE ToString(o.uri.port)
           [] OTHER -> o.uri[c]

\* The headers a target asks for.
Overridden(o) == HeaderMap(IF o = Nil THEN <<>> ELSE o.headers)

\* Whose token a request carries.
Signer(task, o) ==
    IF o # Nil /\ o.auth # Nil /\ (task.auth = Nil \/ Enforced(o)) THEN o.auth ELSE task.auth

\* A header the emulator does not set itself, and no other of the task or of the target
\* differs from it in spelling only.
Free(k, task, o) ==
    /\ \A j \in DOMAIN task.headers \union DOMAIN Overridden(o) : Canonical[j] = Canonical[k] => j = k
    /\ Canonical[k] # "User-Agent"
    /\ Canonical[k] = "Authorization" => Signer(task, o) = Nil

\* An enforced override leaves the task no say in what it sets, one that is not enforced
\* takes nothing away that the task sets; what one of them leaves open the other decides.
\* The User-Agent and, with a token, the Authorization are neither's.
Honoured(req, task, o) ==
    LET theirs == {c \in URIComponents : Asks(o, c) # ""}
        mine == {c \in URIComponents : ~Unset(c, task.url[c])}
        plain == {c \in URIComponents : c = "host" => Hostname[task.url.host] = task.url.host}
        over == Overridden(o)
        free == {k \in DOMAIN task.headers \union DOMAIN over : Free(k, task, o)}
        given == {k \in DOMAIN task.headers : task.headers[k] # ""}
        method == IF o = Nil THEN 0 ELSE o.method
    IN  /\ req.headers["User-Agent"] = HTTPUserAgent
        /\ IF Signer(task, o) = Nil THEN req.token = Nil
           ELSE req.token.email = Signer(task, o).email
        /\ \A c \in plain \intersect (mine \ theirs) : req.url[c] = task.url[c]
        /\ \A c \in plain \intersect (theirs \ mine) : req.url[c] = Asks(o, c)
        /\ \A k \in free \intersect (given \ DOMAIN over) : req.headers[Canonical[k]] = task.headers[k]
        /\ \A k \in free \intersect (DOMAIN over \ given) : req.headers[Canonical[k]] = over[k]
        /\ IF Enforced(o)
           THEN /\ \A c \in theirs : req.url[c] = Asks(o, c)
                /\ \A k \in free \intersect DOMAIN over : req.headers[Canonical[k]] = over[k]
                /\ req.method = HttpMethodName(IF method = 0 THEN task.method ELSE method)
           ELSE /\ \A c \in plain \intersect mine : req.url[c] = task.url[c]
                /\ \A k \in free \intersect given : req.headers[Canonical[k]] = task.headers[k]
                /\ req.method = HttpMethodName(task.method)

\* A request is what its task asks for, or the target of its queue when the attempt
\* began (applyHTTPOverride, applyURIOverride), but for the headers that are the emulator's
\* (buildHTTPRequest, setAuthHeader). An IPv6 literal, whose brackets are lost, and headers
\* that differ in spelling only are left out.
OverridePrecedence ==
    sent # Nil /\ sent.known /\ sent.task.type = "http" =>
        Honoured(sent.req, sent.task, sent.target)

\* What is checked when a task is created still holds of what is sent: a body goes out
\* with a method that may have one, unless the queue enforces another method; and a
\* token without an audience of its own is for the URL that is really called, after the
\* override (checkBodyMethod, setAuthHeader). An attempt whose override came from an update
\* that named no field is left out.
RequestsSound ==
    sent # Nil =>
        /\ sent.req.body # 0 =>
              \/ sent.req.method \in {"POST", "PUT", "PATCH"}
              \/ ~sent.known
              \/ Enforced(sent.target) /\ sent.target.method # 0
        /\ sent.req.token # Nil /\ sent.req.token.kind = "oidc" =>
              \/ sent.req.token.for = sent.req.url
              \/ ~sent.known
              \/ \E a \in {sent.task.auth, IF sent.target = Nil THEN Nil ELSE sent.target.auth} :
                     a # Nil /\ sent.req.token.for = a.for /\ a.for # Nil
=============================================================================
