----------------------------- MODULE MCDelivery -----------------------------
(* Settings of Delivery for TLC.                                              *)
EXTENDS Delivery

MCAppEnginePaths == {"app_engine_routing_override", "app_engine_http_queue",
                     "app_engine_http_queue.app_engine_routing_override"}

MCJSONPaths == "rateLimits" :> "rate_limits" @@ "httpTarget" :> "http_target"
               @@ "rateLimits.maxBurstSize" :> "rate_limits.max_burst_size"

MCStrings == {"", "HTTP", "HTTPS", "ALWAYS", "UNSPECIFIED", "RUNNING", "PAUSED", "DISABLED",
              "q1", "q2", "h", "o", "[v6]", "v6", "aud", "scope", "queue", "task", "http", "https",
              "80", "81", "/", "/o", "/t", "a", "1", "2", "t"}

MCCanonical == "X-A" :> "X-A" @@ "x-a" :> "X-A" @@ "Content-Type" :> "Content-Type"
               @@ "User-Agent" :> "User-Agent" @@ "Authorization" :> "Authorization"

MCHostname == "" :> "" @@ "h" :> "h" @@ "o" :> "o" @@ "[v6]" :> "v6" @@ "v6" :> "v6"

\* Audiences and scopes are URLs, like the targets.
Audience == [scheme |-> "https", host |-> "aud", port |-> "", path |-> "", query |-> ""]

OAuthScope == [scheme |-> "https", host |-> "scope", port |-> "", path |-> "", query |-> ""]

V2Queue == [name |-> "q1", state |-> "UNSPECIFIED", rate |-> 1, retry |-> Nil, routing |-> Nil]

Beta(q) == q @@ [target |-> Nil, pull |-> FALSE, taskTTL |-> Nil]

Always == [method |-> 2, headers |-> << <<"X-A", "1">>, <<"Authorization", "1">>, <<"X-A", "2">> >>,
           auth |-> [kind |-> "oidc", email |-> "queue", for |-> Nil],
           uri |-> [scheme |-> "HTTPS", host |-> "o", port |-> 80, path |-> "/o", query |-> "",
                    enforce |-> "ALWAYS"]]

IfAbsent == [method |-> 2, headers |-> << <<"X-A", "1">>, <<"User-Agent", "1">> >>, auth |-> Nil,
             uri |-> [scheme |-> "", host |-> "o", port |-> 80, path |-> "/o", query |-> "a",
                      enforce |-> "UNSPECIFIED"]]

OnlyMode == [method |-> 0, headers |-> <<>>, auth |-> [kind |-> "oauth", email |-> "queue", for |-> OAuthScope],
             uri |-> [scheme |-> "", host |-> "", port |-> Nil, path |-> "", query |-> "",
                      enforce |-> "ALWAYS"]]

MCFresh ==
    [v \in Versions |->
        IF v = "v2" THEN {V2Queue, [V2Queue EXCEPT !.name = "q2", !.rate = Nil, !.routing = "h",
                                                   !.retry = [maxAttempts |-> 3, maxRetryDuration |-> Nil]]}
        ELSE {[Beta(V2Queue) EXCEPT !.target = t, !.rate = 2, !.taskTTL = 5] : t \in {Always, IfAbsent, OnlyMode}}]

MCMasks == [v \in Versions |->
               {{}, {"rate_limits"}, {"retry_config", "rate_limits.max_burst_size"}, {"rate_limits.max_burst_size"},
                IF v = "v2" THEN {"app_engine_routing_override"} ELSE {"http_target"}}]

MCQueries == {{<<"$alt", "json">>, <<"updateMask", {"rateLimits"}>>},
              {<<"queue.name", "q2">>, <<"updateMask", {"httpTarget"}>>, <<"update_mask", {"rateLimits"}>>},
              {<<"updateMask", {"rate_limits"}>>}}

Http == [type |-> "http", deadline |-> Nil, method |-> 0, body |-> 1,
         url |-> [scheme |-> "http", host |-> "h", port |-> "", path |-> "/", query |-> ""],
         headers |-> ("X-A" :> "t" @@ "User-Agent" :> "t"), auth |-> [kind |-> "oidc", email |-> "task", for |-> Nil]]

MCTaskMessages ==
    [v \in Versions |->
        IF v = "v2"
        THEN {Http, [Http EXCEPT !.method = 2],
              [Http EXCEPT !.method = 3, !.body = 0, !.url.host = "[v6]", !.headers = ("x-a" :> "t" @@ "Authorization" :> "t"),
                           !.auth.for = Audience]}
        ELSE {[Http EXCEPT !.method = 4, !.url.port = "81", !.url.path = "/t", !.headers = ("X-A" :> "" @@ "Authorization" :> "t"),
                           !.auth = Nil, !.deadline = 15],
              [Http EXCEPT !.url = Nil],
              [type |-> "appengine", deadline |-> 20, method |-> 1, body |-> 2,
               headers |-> ("User-Agent" :> "t"), routing |-> ""],
              [type |-> "pull", deadline |-> Nil, body |-> 1]}]
=============================================================================
