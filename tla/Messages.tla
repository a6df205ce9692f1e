------------------------------ MODULE Messages ------------------------------
(* The conversions between the messages of the two API versions and the        *)
(* neutral types (emulator/v2.go, v2beta3.go, conv.go). A message is a record   *)
(* of the fields the engine reads; an unset submessage, pointer or duration is  *)
(* Nil. The v2 messages have no pull, taskTTL and target.                       *)
EXTENDS Integers, SequencesExt

CONSTANTS Nil,              \* no message, no pointer
          Strings,          \* the strings in messages
          HeaderNames,      \* the names of headers, in any spelling
          Ports,            \* port numbers
          AppEnginePaths    \* the field paths that contain "app_engine"

Versions == {"v2", "v2beta3"}

-----------------------------------------------------------------------------
(* conv.go                                                                     *)

Methods == <<"POST", "GET", "HEAD", "PUT", "DELETE", "PATCH", "OPTIONS">>

HttpMethodName(m) == IF m \in 1 .. 7 THEN Methods[m] ELSE "POST"

HttpMethodEnum(name) == IF \E m \in 1 .. 7 : Methods[m] = name
                        THEN CHOOSE m \in 1 .. 7 : Methods[m] = name ELSE 1

DurToDuration(d) == IF d = Nil THEN 0 ELSE d

DurationToDur(d) == IF d = 0 THEN Nil ELSE d

-----------------------------------------------------------------------------
(* The messages of the API.                                                    *)

URLs == [scheme : Strings, host : Strings, port : Strings, path : Strings, query : Strings]

Auths == [kind : {"oidc", "oauth"}, email : Strings, for : URLs \union {Nil}]

Retries == [maxAttempts : Int, maxRetryDuration : Int \union {Nil}]

TargetURIs == [scheme : Strings, host : Strings, port : Ports \union {Nil}, path : Strings,
               query : Strings, enforce : Strings]

Targets == [method : Int, uri : TargetURIs \union {Nil}, headers : Seq(HeaderNames \X Strings),
            auth : Auths \union {Nil}]

QueueMessages(version) ==
    IF version = "v2"
    THEN [name : Strings, state : Strings, rate : Int \union {Nil}, retry : Retries \union {Nil},
          routing : Strings \union {Nil}]
    ELSE [name : Strings, state : Strings, rate : Int \union {Nil}, retry : Retries \union {Nil},
          routing : Strings \union {Nil}, target : Targets \union {Nil}, pull : BOOLEAN,
          taskTTL : Int \union {Nil}]

-----------------------------------------------------------------------------
(* The neutral types.                                                          *)

CoreURIs == [scheme : {"", "http", "https"}, host : Strings,
             port : {""} \union {ToString(p) : p \in Ports}, path : Strings, query : Strings]

Headers == UNION {[D -> Strings] : D \in {D \in SUBSET HeaderNames : IsFiniteSet(D)}}

CoreMethods == {""} \union {HttpMethodName(m) : m \in 0 .. 7}

Overrides == [uri : CoreURIs, alwaysEnforce : BOOLEAN, method : CoreMethods, headers : Headers,
              auth : Auths \union {Nil}]

States == {"RUNNING", "PAUSED", "DISABLED"}

CoreRetries == [maxAttempts : Int, maxRetryDuration : Int]

CoreQueues == [state : States, rate : Int, retry : CoreRetries, routing : Strings \union {Nil},
               override : Overrides \union {Nil}, pull : BOOLEAN, taskTTL : Int]

\* Nil is no value of any kind, a port is not written as the empty string, and the paths
\* of the other fields do not contain "app_engine".
ASSUME MessagesAssumption ==
    /\ States \union {"", "HTTP", "HTTPS", "ALWAYS", "UNSPECIFIED"} \subseteq Strings
    /\ \A p \in Ports : ToString(p) \in Strings \ {""}
    /\ Nil \notin Int /\ Nil \notin Ports /\ Nil \notin Retries /\ Nil \notin TargetURIs
    /\ Nil \notin Targets /\ Nil \notin Overrides /\ Nil \notin CoreQueues
    /\ AppEnginePaths \intersect {"rate_limits", "retry_config", "http_target"} = {}

-----------------------------------------------------------------------------
(* Queues.                                                                     *)

StateToCore(s) == IF s \in {"PAUSED", "DISABLED"} THEN s ELSE "RUNNING"

\* Header overrides are a list; of two with one key the later counts.
HeaderMap(list) ==
    [k \in {list[i][1] : i \in DOMAIN list} |->
        LET i == CHOOSE i \in DOMAIN list :
                     list[i][1] = k /\ \A j \in DOMAIN list : list[j][1] = k => j <= i
        IN  list[i][2]]

HeaderList(headers) == SetToSeq({<<k, headers[k]>> : k \in DOMAIN headers})

Scheme(s) == IF s = "HTTP" THEN "http" ELSE IF s = "HTTPS" THEN "https" ELSE ""

NoURI == [scheme |-> "", host |-> "", port |-> "", path |-> "", query |-> ""]

HTTPOverrideToCore(h) ==
    IF h = Nil THEN Nil
    ELSE [uri |-> IF h.uri = Nil THEN NoURI
                  ELSE [scheme |-> Scheme(h.uri.scheme), host |-> h.uri.host,
                        port |-> IF h.uri.port = Nil THEN "" ELSE ToString(h.uri.port),
                        path |-> h.uri.path, query |-> h.uri.query],
          alwaysEnforce |-> h.uri # Nil /\ h.uri.enforce = "ALWAYS",
          method |-> IF h.method = 0 THEN "" ELSE HttpMethodName(h.method),
          headers |-> HeaderMap(h.headers), auth |-> h.auth]

\* Bug: the enforce mode is only sent along with a URI component.
HasURIComponentsOnly(o) == o.uri # NoURI

HasURI(o) == o.uri # NoURI \/ o.alwaysEnforce

HTTPOverrideFromCore(o) ==
    [method |-> IF o.method = "" THEN 0 ELSE HttpMethodEnum(o.method),
     uri |-> IF ~HasURI(o) THEN Nil
             ELSE [scheme |-> CASE o.uri.scheme = "http" -> "HTTP"
                                [] o.uri.scheme = "https" -> "HTTPS" [] OTHER -> "",
                   host |-> o.uri.host,
                   port |-> IF o.uri.port = "" THEN Nil
                            ELSE CHOOSE p \in Ports : ToString(p) = o.uri.port,
                   path |-> o.uri.path, query |-> o.uri.query,
                   enforce |-> IF o.alwaysEnforce THEN "ALWAYS" ELSE "UNSPECIFIED"],
     headers |-> HeaderList(o.headers), auth |-> o.auth]

RetryToCore(rc) ==
    IF rc = Nil THEN [maxAttempts |-> 0, maxRetryDuration |-> 0]
    ELSE [rc EXCEPT !.maxRetryDuration = DurToDuration(@)]

QueueToCore(version, m) ==
    [state |-> StateToCore(m.state), rate |-> IF m.rate = Nil THEN 0 ELSE m.rate,
     retry |-> RetryToCore(m.retry), routing |-> m.routing,
     override |-> IF version = "v2" THEN Nil ELSE HTTPOverrideToCore(m.target),
     pull |-> version = "v2beta3" /\ m.pull,
     taskTTL |-> IF version = "v2" THEN 0 ELSE DurToDuration(m.taskTTL)]

QueueFromCore(version, name, q) ==
    LET retry == [q.retry EXCEPT !.maxRetryDuration = DurationToDur(@)]
        target == IF q.override = Nil THEN Nil ELSE HTTPOverrideFromCore(q.override)
    IN  IF version = "v2"
        THEN [name |-> name, state |-> q.state, rate |-> q.rate, retry |-> retry,
              routing |-> q.routing]
        ELSE [name |-> name, state |-> q.state, rate |-> q.rate, retry |-> retry,
              routing |-> q.routing, target |-> target, pull |-> q.pull,
              taskTTL |-> DurationToDur(q.taskTTL)]

\* v2QueueFields and v2beta3QueueFields: a path is matched as a whole, so that of a
\* subfield is unknown, and unknown paths are dropped. v2beta3 takes every path that
\* contains "app_engine" for the routing override; AppEnginePaths are those.
PathField(version, path) ==
    CASE path = "rate_limits" -> {"rate"}
      [] path = "retry_config" -> {"retry"}
      [] version = "v2" /\ path = "app_engine_routing_override" -> {"routing"}
      [] version = "v2beta3" /\ path = "http_target" -> {"override"}
      [] version = "v2beta3" /\ path \in AppEnginePaths -> {"routing"}
      [] OTHER -> {}

\* Bug: the fields of v2 alone are known.
QueueFieldsOneVersion(version, paths) == UNION {PathField("v2", p) : p \in paths}

QueueFields(version, paths) == UNION {PathField(version, p) : p \in paths}

-----------------------------------------------------------------------------
(* Tasks. A task of the engine is [deadline, target], its target a record with *)
(* a type; PULL is only known to v2beta3.                                      *)

TaskToCore(version, m) ==
    [deadline |-> DurToDuration(m.deadline),
     target |->
        CASE m.type = "http" ->
                 [type |-> "http", method |-> HttpMethodName(m.method), url |-> m.url,
                  headers |-> m.headers, body |-> m.body, auth |-> m.auth]
          [] m.type = "appengine" ->
                 [type |-> "appengine", method |-> HttpMethodName(m.method),
                  headers |-> m.headers, body |-> m.body, routing |-> m.routing]
          [] m.type = "pull" /\ version = "v2beta3" -> [type |-> "pull", body |-> m.body]
          [] OTHER -> [type |-> "none"]]

\* Bug: the body of an App Engine task is left out of both views.
TaskFromCoreNoBody(version, t, full) ==
    LET tg == t.target
        deadline == DurationToDur(t.deadline)
    IN  CASE tg.type = "http" ->
                 [type |-> "http", deadline |-> deadline, method |-> HttpMethodEnum(tg.method),
                  url |-> tg.url, headers |-> tg.headers, body |-> tg.body, auth |-> tg.auth]
          [] tg.type = "appengine" ->
                 [type |-> "appengine", deadline |-> deadline,
                  method |-> HttpMethodEnum(tg.method), headers |-> tg.headers,
                  routing |-> tg.routing, body |-> 0]
          [] tg.type = "pull" /\ version = "v2beta3" ->
                 [type |-> "pull", deadline |-> deadline, body |-> tg.body]
          [] OTHER -> [type |-> "none", deadline |-> deadline]

\* The BASIC view leaves out the body of an App Engine task. v2 has no pull tasks.
TaskFromCore(version, t, full) ==
    LET tg == t.target
        deadline == DurationToDur(t.deadline)
    IN  CASE tg.type = "http" ->
                 [type |-> "http", deadline |-> deadline, method |-> HttpMethodEnum(tg.method),
                  url |-> tg.url, headers |-> tg.headers, body |-> tg.body, auth |-> tg.auth]
          [] tg.type = "appengine" ->
                 [type |-> "appengine", deadline |-> deadline,
                  method |-> HttpMethodEnum(tg.method), headers |-> tg.headers,
                  routing |-> tg.routing, body |-> IF full THEN tg.body ELSE 0]
          [] tg.type = "pull" /\ version = "v2beta3" ->
                 [type |-> "pull", deadline |-> deadline, body |-> tg.body]
          [] OTHER -> [type |-> "none", deadline |-> deadline]
=============================================================================
