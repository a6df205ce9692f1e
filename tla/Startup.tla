------------------------------ MODULE Startup ------------------------------
(* The process of main.go: the goroutine of main, which parses its options,   *)
(* creates queues, opens up to three listeners and serves gRPC; the goroutine  *)
(* that waits for a signal; the one that shuts the servers down; and the one   *)
(* each HTTP server runs in.                                                   *)
EXTENDS Sequences

CONSTANTS QueueNames,     \* names EnsureQueue accepts
          BadNames,       \* names it rejects
          Empty,          \* the empty string
          Unset,          \* a flag or an environment variable that is not given
          Port, Issuer,   \* a port; an issuer URL with a port
          BadIssuer,      \* an issuer URL that names none, or cannot be parsed
          Inputs,         \* the command lines and environments considered
          RPCs            \* gRPC calls that may be in progress at a time

ASSUME StartupAssumption ==
    /\ Empty \notin QueueNames \union BadNames \union {Unset, Port, Issuer, BadIssuer}
    /\ Unset \notin {Port, Issuer, BadIssuer} /\ Issuer # BadIssuer
    /\ Inputs \subseteq [queueFlags : Seq(QueueNames \union BadNames \union {Empty}),
                         initialQueues : Seq(QueueNames \union BadNames \union {Empty}),
                         restFlag : {Unset, Empty, Port}, restEnv : {Unset, Empty, Port},
                         issuerFlag : {Unset, Empty, Issuer, BadIssuer},
                         issuerEnv : {Unset, Empty, Issuer, BadIssuer}]

HTTP == {"openid", "rest"}
Servers == HTTP \union {"grpc"}

VARIABLES
    opts,      \* the options that run() was called with
    pc,        \* where the goroutine of main is
    left,      \* initial queues not yet created
    created,   \* initial queues created
    sock,      \* listening sockets
    http,      \* the HTTP servers and their goroutines
    closed,    \* the HTTP servers on which Close has been called
    notified,  \* signal.Notify has been called
    sig,       \* a signal: none, waiting in sigCh, or received
    stop,      \* the channel stop is closed
    serving,   \* the channel serving is closed
    sd,        \* where the goroutine that shuts down is
    grpc,      \* the gRPC server
    rpcs,      \* its calls in progress
    exit       \* how the process ended, or ""

vars == <<opts, pc, left, created, sock, http, closed, notified, sig, stop, serving, sd,
          grpc, rpcs, exit>>
mainVars == <<opts, left, created>>
netVars == <<sock, http, closed>>
sigVars == <<notified, sig, stop>>
grpcVars == <<grpc, rpcs>>

-----------------------------------------------------------------------------
(* Options: a flag, else the environment variable if it is set, even to the   *)
(* empty string, else the default.                                            *)

EnvOr(env, default) == IF env = Unset THEN default ELSE env

FlagOr(flag, default) == IF flag = Unset THEN default ELSE flag

SplitList(parts) == SelectSeq(parts, LAMBDA p : p # Empty)

\* The parts that are left of a list are a list: known of SelectSeq, and not to the provers.
ASSUME SplitAssumption ==
    \A in \in Inputs :
        SplitList(in.initialQueues) \in Seq(QueueNames \union BadNames \union {Empty})

ParseFlags(in) ==
    [queues |-> IF in.queueFlags = <<>> THEN SplitList(in.initialQueues) ELSE in.queueFlags,
     restPort |-> FlagOr(in.restFlag, EnvOr(in.restEnv, Port)),
     openIDIssuer |-> FlagOr(in.issuerFlag, EnvOr(in.issuerEnv, Empty))]

Init ==
    /\ \E in \in Inputs : opts = ParseFlags(in)
    /\ pc = "ensure" /\ left = opts.queues /\ created = {}
    /\ sock = [s \in Servers |-> "closed"]
    /\ http = [s \in HTTP |-> "nil"]
    /\ closed = {}
    /\ notified = FALSE /\ sig = "none" /\ stop = FALSE /\ serving = FALSE
    /\ sd = "none" /\ grpc = "new" /\ rpcs = {} /\ exit = ""

-----------------------------------------------------------------------------
(* run(), up to the goroutine that shuts down.                                *)

\* Bug: a queue that cannot be created is passed over.
EnsureQueueLenient ==
    /\ pc = "ensure" /\ left # <<>>
    /\ created' = created \union ({Head(left)} \intersect QueueNames) /\ left' = Tail(left)
    /\ UNCHANGED <<opts, pc, netVars, sigVars, serving, sd, grpcVars, exit>>

EnsureQueue ==
    /\ pc = "ensure" /\ left # <<>>
    /\ IF Head(left) \in QueueNames
       THEN created' = created \union {Head(left)} /\ left' = Tail(left) /\ pc' = pc
       ELSE pc' = "failed" /\ UNCHANGED <<created, left>>
    /\ UNCHANGED <<opts, netVars, sigVars, serving, sd, grpcVars, exit>>

Listen ==
    /\ pc = "ensure" /\ left = <<>>
    /\ \/ sock' = [sock EXCEPT !["grpc"] = "open"] /\ pc' = "openid"
       \/ sock' = sock /\ pc' = "failed"
    /\ UNCHANGED <<mainVars, http, closed, sigVars, serving, sd, grpcVars, exit>>

\* A server with its own listener, and the goroutine that serves it.
Start(s, next) ==
    /\ sock' = [sock EXCEPT ![s] = "open"]
    /\ http' = [http EXCEPT ![s] = "started"]
    /\ pc' = next /\ closed' = closed

\* http.Server.Close: a listener that Serve has not seen yet stays open until it has.
CloseServer(s, sockets) ==
    /\ closed' = IF http[s] = "nil" THEN closed ELSE closed \union {s}
    /\ http' = [http EXCEPT ![s] = IF @ = "serving" THEN "done" ELSE @]
    /\ sock' = [sockets EXCEPT ![s] = IF http[s] = "serving" THEN "closed" ELSE @]

GrpcClosed == [sock EXCEPT !["grpc"] = "closed"]

StartOpenIDServer ==
    /\ pc = "openid"
    /\ \/ opts.openIDIssuer = Empty /\ pc' = "rest" /\ UNCHANGED netVars
       \/ opts.openIDIssuer = Issuer /\ Start("openid", "rest")
       \/ opts.openIDIssuer # Empty /\ sock' = GrpcClosed /\ pc' = "failed"
          /\ UNCHANGED <<http, closed>>
    /\ UNCHANGED <<mainVars, sigVars, serving, sd, grpcVars, exit>>

\* Bug: the OpenID server is left running when the REST server cannot be started.
RestFailedLeaving == sock' = GrpcClosed /\ UNCHANGED <<http, closed>>

RestFailed == CloseServer("openid", GrpcClosed)

\* The handler and the listener may each fail; both errors take the same way out.
StartRESTServer ==
    /\ pc = "rest"
    /\ \/ opts.restPort = Empty /\ pc' = "spawn" /\ UNCHANGED netVars
       \/ opts.restPort # Empty /\ Start("rest", "spawn")
       \/ opts.restPort # Empty /\ RestFailed /\ pc' = "failed"
    /\ UNCHANGED <<mainVars, sigVars, serving, sd, grpcVars, exit>>

SpawnShutdown ==
    /\ pc = "spawn" /\ pc' = "announce" /\ sd' = "stop"
    /\ UNCHANGED <<mainVars, netVars, sigVars, serving, grpcVars, exit>>

\* Bug: the channel is never closed.
CloseServingForgotten ==
    /\ pc = "announce" /\ pc' = "serve"
    /\ UNCHANGED <<mainVars, netVars, sigVars, serving, sd, grpcVars, exit>>

\* The address is announced, then the channel is closed.
CloseServing ==
    /\ pc = "announce" /\ pc' = "serve" /\ serving' = TRUE
    /\ UNCHANGED <<mainVars, netVars, sigVars, sd, grpcVars, exit>>

\* grpc.Server.Serve: on a server that has been stopped it closes the listener
\* and returns ErrServerStopped.
ServeBegins ==
    /\ pc = "serve"
    /\ IF grpc = "new" THEN grpc' = "serving" /\ pc' = "accept" /\ sock' = sock
                       ELSE grpc' = grpc /\ pc' = "failed" /\ sock' = GrpcClosed
    /\ UNCHANGED <<mainVars, http, closed, sigVars, serving, sd, rpcs, exit>>

\* Serve returns nil once GracefulStop is done.
ServeReturns ==
    /\ pc = "accept" /\ grpc = "stopped" /\ pc' = "returned"
    /\ UNCHANGED <<mainVars, netVars, sigVars, serving, sd, grpcVars, exit>>

\* An Accept fails for good, and Serve returns its error.
ServeFails ==
    /\ pc = "accept" /\ grpc = "serving" /\ pc' = "failed" /\ sock' = GrpcClosed
    /\ UNCHANGED <<mainVars, http, closed, sigVars, serving, sd, grpcVars, exit>>

\* main returns, or logFatalf exits; what is still open is left to the system.
Exit ==
    /\ pc \in {"returned", "failed"}
    /\ exit' = IF pc = "returned" THEN "ok" ELSE "error"
    /\ UNCHANGED <<mainVars, pc, netVars, sigVars, serving, sd, grpcVars>>

-----------------------------------------------------------------------------
(* Signals.                                                                   *)

Notify ==
    /\ ~notified /\ notified' = TRUE
    /\ UNCHANGED <<mainVars, pc, netVars, sig, stop, serving, sd, grpcVars, exit>>

\* Before Notify a signal has its default effect.
Signal ==
    /\ sig = "none"
    /\ IF notified THEN sig' = "waiting" /\ exit' = exit ELSE exit' = "killed" /\ sig' = sig
    /\ UNCHANGED <<mainVars, pc, netVars, notified, stop, serving, sd, grpcVars>>

ReceiveSignal ==
    /\ sig = "waiting" /\ sig' = "received" /\ stop' = TRUE
    /\ UNCHANGED <<mainVars, pc, netVars, notified, serving, sd, grpcVars, exit>>

-----------------------------------------------------------------------------
(* The goroutine that shuts down: <-stop, <-serving, and the three servers.   *)

AwaitStop ==
    /\ sd = "stop" /\ stop /\ sd' = "serving"
    /\ UNCHANGED <<mainVars, pc, netVars, sigVars, serving, grpcVars, exit>>

CloseServers ==
    \/ sd = "serving" /\ serving /\ CloseServer("openid", sock) /\ sd' = "rest"
    \/ sd = "rest" /\ CloseServer("rest", sock) /\ sd' = "grpc"

CloseHTTPServers ==
    /\ CloseServers
    /\ UNCHANGED <<mainVars, pc, sigVars, serving, grpcVars, exit>>

\* Bug: Stop instead of GracefulStop.
StopAbruptly == grpc' = "stopped" /\ sd' = "done"

\* A server that does not serve yet has no listener to close and no calls to wait for.
StopGracefully ==
    IF grpc = "new" THEN grpc' = "stopped" /\ sd' = "done"
                    ELSE grpc' = "draining" /\ sd' = "drain"

GracefulStop ==
    /\ sd = "grpc"
    /\ StopGracefully
    /\ sock' = IF grpc = "new" THEN sock ELSE GrpcClosed
    /\ UNCHANGED <<mainVars, pc, http, closed, sigVars, serving, rpcs, exit>>

Drained ==
    /\ sd = "drain" /\ rpcs = {} /\ grpc' = "stopped" /\ sd' = "done"
    /\ UNCHANGED <<mainVars, pc, netVars, sigVars, serving, rpcs, exit>>

-----------------------------------------------------------------------------
(* The goroutines of the HTTP servers, and the clients.                       *)

HTTPServe(s) ==
    /\ http[s] = "started"
    /\ http' = [http EXCEPT ![s] = IF s \in closed THEN "done" ELSE "serving"]
    /\ sock' = [sock EXCEPT ![s] = IF s \in closed THEN "closed" ELSE @]
    /\ UNCHANGED <<mainVars, pc, closed, sigVars, serving, sd, grpcVars, exit>>

BeginRPC(r) ==
    /\ grpc = "serving" /\ pc = "accept" /\ r \notin rpcs
    /\ rpcs' = rpcs \union {r}
    /\ UNCHANGED <<mainVars, pc, netVars, sigVars, serving, sd, grpc, exit>>

EndRPC(r) ==
    /\ r \in rpcs /\ rpcs' = rpcs \ {r}
    /\ UNCHANGED <<mainVars, pc, netVars, sigVars, serving, sd, grpc, exit>>

-----------------------------------------------------------------------------
Run == \/ EnsureQueue \/ Listen \/ StartOpenIDServer \/ StartRESTServer \/ SpawnShutdown
       \/ CloseServing \/ ServeBegins \/ ServeReturns \/ Exit

Shutdown == AwaitStop \/ CloseHTTPServers \/ GracefulStop \/ Drained

Step ==
    \/ Run \/ ServeFails \/ Notify \/ Signal \/ ReceiveSignal \/ Shutdown
    \/ \E s \in HTTP : HTTPServe(s)
    \/ \E r \in RPCs : BeginRPC(r) \/ EndRPC(r)

Ended == exit # "" /\ UNCHANGED vars

Next == (exit = "" /\ Step) \/ Ended

Spec == Init /\ [][Next]_vars

Live(A) == exit = "" /\ A

\* Goroutines that can run do, and every call ends; nothing is assumed of signals.
FairSpec ==
    /\ Spec
    /\ WF_vars(Live(Run)) /\ WF_vars(Live(Notify)) /\ WF_vars(Live(ReceiveSignal))
    /\ WF_vars(Live(Shutdown))
    /\ \A s \in HTTP : WF_vars(Live(HTTPServe(s)))
    /\ \A r \in RPCs : WF_vars(Live(EndRPC(r)))

-----------------------------------------------------------------------------
(* Properties.                                                                *)

\* Once run() has failed before it served, whichever step failed, none of its
\* listeners is left: each is closed, or belongs to a server that has been closed
\* and whose goroutine closes it (run's error paths).
FailedStartLeavesNothing ==
    pc = "failed" /\ grpc = "new" =>
        \A s \in Servers : sock[s] = "open" => s \in closed

\* The queues that the flags or INITIAL_QUEUES ask for exist before the address is
\* announced or a call is served, whatever else happens during startup.
QueuesBeforeReady ==
    pc \in {"announce", "serve", "accept", "returned"} =>
        \A i \in DOMAIN opts.queues : opts.queues[i] \in created

\* A process that ends with success has finished every gRPC call it had begun, and
\* has closed its HTTP servers and its gRPC listener.
CleanExit ==
    exit = "ok" =>
        /\ rpcs = {} /\ sock["grpc"] = "closed"
        /\ \A s \in HTTP : http[s] # "nil" => s \in closed

\* A signal that was caught, at whatever point of startup or service, ends the process.
SignalEnds == (sig = "waiting") ~> (exit # "")
=============================================================================
