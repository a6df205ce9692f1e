------------------------------ MODULE Dispatch ------------------------------
(* How the HTTP request of an attempt is built from a task and its queue        *)
(* (core/dispatch.go), and which tasks are accepted (validateCreateTask). URLs  *)
(* are records of their components, headers functions from keys to values.      *)
EXTENDS Messages

CONSTANTS Canonical,        \* the canonical spelling of a header's name
          Hostname,         \* the host of an authority, without the brackets of an IPv6 literal
          DefaultHost,      \* the default App Engine host, "" if none
          MaxHTTPBody, MaxAppEngineBody,                     \* sizes
          MinDeadline, MaxHTTPDeadline, MaxAppEngineDeadline

-----------------------------------------------------------------------------
(* validateCreateTask; sizes of URLs and headers are taken to be in order.      *)

DeadlineOK(d, max) == d # 0 => MinDeadline <= d /\ d <= max

BodyMethodOK(tg, allowed) == tg.body # 0 => tg.method \in allowed

\* Bug: the method is not looked at.
ValidTaskAnyMethod(t) ==
    CASE t.target.type = "http" -> DeadlineOK(t.deadline, MaxHTTPDeadline)
                                   /\ t.target.body <= MaxHTTPBody
      [] t.target.type = "appengine" -> DeadlineOK(t.deadline, MaxAppEngineDeadline)
                                        /\ t.target.body <= MaxAppEngineBody
      [] t.target.type = "pull" -> t.target.body <= MaxHTTPBody
      [] OTHER -> FALSE

ValidTask(t) ==
    CASE t.target.type = "http" ->
             /\ DeadlineOK(t.deadline, MaxHTTPDeadline)
             /\ t.target.body <= MaxHTTPBody
             /\ BodyMethodOK(t.target, {"POST", "PUT", "PATCH"})
      [] t.target.type = "appengine" ->
             /\ DeadlineOK(t.deadline, MaxAppEngineDeadline)
             /\ t.target.body <= MaxAppEngineBody
             /\ BodyMethodOK(t.target, {"POST", "PUT"})
      [] t.target.type = "pull" -> t.target.body <= MaxHTTPBody
      [] OTHER -> FALSE

-----------------------------------------------------------------------------
(* The queue's override. A URL that cannot be parsed is Nil.                    *)

URIComponents == {"scheme", "host", "port", "path", "query"}

Unset(component, value) == value = "" \/ (component = "path" /\ value = "/")

\* The authority is put together again from its host and port: the brackets of an
\* IPv6 literal are lost.
ApplyURIOverride(url, ov) ==
    IF url = Nil THEN Nil
    ELSE LET kept == [url EXCEPT !.host = Hostname[@]]
         IN  [c \in URIComponents |->
                 IF ov.uri[c] # "" /\ (ov.alwaysEnforce \/ Unset(c, kept[c]))
                 THEN ov.uri[c] ELSE kept[c]]

\* Keys are compared as they are spelled.
MergeHeaders(headers, ov) ==
    [k \in DOMAIN headers \union DOMAIN ov.headers |->
        IF k \in DOMAIN ov.headers
           /\ (ov.alwaysEnforce \/ k \notin DOMAIN headers \/ headers[k] = "")
        THEN ov.headers[k] ELSE headers[k]]

\* Bug: the enforce mode of the method is not looked at.
ApplyHTTPOverrideEager(tg, ov) ==
    IF ov = Nil THEN [method |-> tg.method, url |-> tg.url, headers |-> tg.headers, auth |-> tg.auth]
    ELSE [method |-> IF ov.method # "" THEN ov.method ELSE tg.method,
          url |-> ApplyURIOverride(tg.url, ov),
          headers |-> MergeHeaders(tg.headers, ov),
          auth |-> IF ov.auth # Nil /\ (tg.auth = Nil \/ ov.alwaysEnforce) THEN ov.auth ELSE tg.auth]

ApplyHTTPOverride(tg, ov) ==
    IF ov = Nil THEN [method |-> tg.method, url |-> tg.url, headers |-> tg.headers, auth |-> tg.auth]
    ELSE [method |-> IF ov.method # "" /\ ov.alwaysEnforce THEN ov.method ELSE tg.method,
          url |-> ApplyURIOverride(tg.url, ov),
          headers |-> MergeHeaders(tg.headers, ov),
          auth |-> IF ov.auth # Nil /\ (tg.auth = Nil \/ ov.alwaysEnforce) THEN ov.auth ELSE tg.auth]

-----------------------------------------------------------------------------
(* Requests.                                                                    *)

\* Header.Set over a Go map, whose order is not defined: of two spellings of a name
\* either value may be the one that stays.
CanonicalHeaders(headers) ==
    LET names == {Canonical[k] : k \in DOMAIN headers}
    IN  {h \in [names -> {headers[k] : k \in DOMAIN headers}] :
            \A n \in names : \E k \in DOMAIN headers : Canonical[k] = n /\ h[n] = headers[k]}

\* An OIDC token is for its audience, by default (Nil: the empty string) the URL; an
\* OAuth token has a scope.
Token(auth, url) ==
    [kind |-> auth.kind, email |-> auth.email,
     for |-> IF auth.kind = "oidc" /\ auth.for = Nil THEN url ELSE auth.for]

HTTPUserAgent == "Google-Cloud-Tasks"

AppEngineUserAgent == "AppEngine-Google; (+http://code.google.com/appengine)"

\* The emulator names itself in the place of the task, and a token takes the place of an
\* Authorization header; it is the token of the request. System headers are left out: none
\* is spelled as a canonical name, so that they replace nothing.
HTTPHeaders(h, auth) ==
    [k \in (DOMAIN h \ (IF auth = Nil THEN {} ELSE {"Authorization"})) \union {"User-Agent"} |->
        IF k = "User-Agent" THEN HTTPUserAgent ELSE h[k]]

\* The requests buildHTTPRequest may return; none if the URL is invalid.
BuildHTTPRequest(q, t) ==
    LET eff == ApplyHTTPOverride(t.target, q.override)
    IN  IF eff.url = Nil THEN {}
        ELSE {[method |-> eff.method, url |-> eff.url, headers |-> HTTPHeaders(h, eff.auth),
               body |-> t.target.body,
               token |-> IF eff.auth = Nil THEN Nil ELSE Token(eff.auth, eff.url)] :
                 h \in CanonicalHeaders(eff.headers)}

AppEngineHost(q, t) ==
    IF t.target.routing \notin {Nil, ""} THEN t.target.routing
    ELSE IF q.routing \notin {Nil, ""} THEN q.routing
    ELSE DefaultHost

\* The emulator adds its name to a task's own, and a type to a body that has none.
AppEngineHeaders(h, body) ==
    LET get(k) == IF k \in DOMAIN h THEN h[k] ELSE ""
        untyped == IF body # 0 /\ get("Content-Type") = "" THEN {"Content-Type"} ELSE {}
    IN  [k \in DOMAIN h \union {"User-Agent"} \union untyped |->
            CASE k = "User-Agent" ->
                     IF get(k) \in {"", AppEngineUserAgent} THEN AppEngineUserAgent
                     ELSE get(k) \o " " \o AppEngineUserAgent
              [] k \in untyped -> "application/octet-stream"
              [] OTHER -> h[k]]

\* None if no host is configured.
BuildAppEngineRequest(q, t) ==
    IF AppEngineHost(q, t) = "" THEN {}
    ELSE {[method |-> t.target.method, url |-> AppEngineHost(q, t),
           headers |-> AppEngineHeaders(h, t.target.body), body |-> t.target.body, token |-> Nil] :
             h \in CanonicalHeaders(t.target.headers)}

BuildRequest(q, t) ==
    CASE t.target.type = "http" -> BuildHTTPRequest(q, t)
      [] t.target.type = "appengine" -> BuildAppEngineRequest(q, t)
      [] OTHER -> {}
=============================================================================
