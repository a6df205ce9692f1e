---------------------------- MODULE StartupProofs ---------------------------
(* What a failed start leaves behind, what is there when calls are served, and *)
(* what a successful exit has finished, for all options and any number of calls. *)
EXTENDS Startup, SequenceTheorems, TLAPS

-----------------------------------------------------------------------------
(* The inductive invariant.                                                    *)

Early == {"ensure", "openid", "rest", "spawn"}
Late == {"announce", "serve", "accept", "returned", "failed"}

Types ==
    /\ left \in Seq(QueueNames \union BadNames \union {Empty})
    /\ sock \in [Servers -> {"closed", "open"}]
    /\ http \in [HTTP -> {"nil", "started", "serving", "done"}]
    /\ closed \subseteq HTTP

\* While a server has not been started it has no socket, and one that has a socket
\* has a goroutine that serves it.
SocketsOwned ==
    /\ \A s \in HTTP : http[s] = "nil" \/ http[s] = "done" => sock[s] = "closed"
    /\ pc = "ensure" => sock["grpc"] = "closed"
    /\ pc \in {"ensure", "openid"} => \A s \in HTTP : http[s] = "nil"
    /\ pc = "rest" => http["rest"] = "nil"

\* The goroutine that shuts down is started once everything else has been, and stops
\* the servers in order.
ShutdownOrder ==
    /\ sd # "none" => pc \in Late
    /\ pc \in {"announce", "serve", "accept", "returned"} => sd # "none"
    /\ sd \in {"rest", "grpc", "drain", "done"} => http["openid"] = "nil" \/ "openid" \in closed
    /\ sd \in {"grpc", "drain", "done"} => http["rest"] = "nil" \/ "rest" \in closed

\* The life of the gRPC server.
GrpcLife ==
    /\ pc \in Early => grpc = "new"
    /\ grpc = "new" => rpcs = {}
    /\ grpc = "draining" <=> sd = "drain"
    /\ grpc = "stopped" => sd = "done" /\ rpcs = {}
    /\ pc \in {"accept", "returned"} => grpc # "new"
    /\ pc \in {"accept", "returned"} /\ grpc # "serving" => sock["grpc"] = "closed"
    /\ pc = "returned" => grpc = "stopped"
    /\ exit = "ok" => pc = "returned"

\* A queue that is asked for has been created or is still to be.
QueuesPending ==
    /\ pc = "ensure" =>
          \A i \in DOMAIN opts.queues :
              opts.queues[i] \in created \/ \E j \in DOMAIN left : left[j] = opts.queues[i]
    /\ pc \notin {"ensure", "failed"} => \A i \in DOMAIN opts.queues : opts.queues[i] \in created

FailedWithoutServing == pc = "failed" /\ grpc = "new" => sd = "none"

IInv == /\ Types /\ SocketsOwned /\ ShutdownOrder /\ GrpcLife /\ QueuesPending
        /\ FailedWithoutServing /\ FailedStartLeavesNothing

\* The invariant holds when run() begins.
LEMMA InitEstablishes == StartupAssumption /\ Init => IInv
  <1> SUFFICES ASSUME StartupAssumption, Init PROVE IInv
    OBVIOUS
  <1>0. PICK in \in Inputs : opts = ParseFlags(in)
    BY DEF Init
  <1>1. left \in Seq(QueueNames \union BadNames \union {Empty})
    <2>1. in.queueFlags \in Seq(QueueNames \union BadNames \union {Empty})
          /\ in.initialQueues \in Seq(QueueNames \union BadNames \union {Empty})
      BY DEF StartupAssumption
    <2>2. SplitList(in.initialQueues) \in Seq(QueueNames \union BadNames \union {Empty})
      BY SplitAssumption
    <2>3. QED
      BY <1>0, <2>1, <2>2 DEF Init, ParseFlags
  <1>2. Types
    BY <1>1 DEF Types, Init, Servers, HTTP
  <1>3. SocketsOwned /\ FailedStartLeavesNothing /\ FailedWithoutServing
    BY DEF SocketsOwned, FailedStartLeavesNothing, FailedWithoutServing, Init, HTTP, Servers
  <1>4. ShutdownOrder /\ GrpcLife
    BY DEF ShutdownOrder, GrpcLife, Init
  <1>5. QueuesPending
    BY DEF QueuesPending, Init
  <1>6. QED
    BY <1>2, <1>3, <1>4, <1>5 DEF IInv

-----------------------------------------------------------------------------
(* One lemma for each part of the invariant; its leaves are the actions.       *)

\* Close, on whichever server (http.Server).
LEMMA CloseTypes ==
    ASSUME Types, NEW s \in HTTP, NEW sockets \in [Servers -> {"closed", "open"}],
           CloseServer(s, sockets)
    PROVE  /\ sock' \in [Servers -> {"closed", "open"}]
           /\ http' \in [HTTP -> {"nil", "started", "serving", "done"}]
           /\ closed' \subseteq HTTP
  BY DEF CloseServer, Types, Servers

\* Types are kept by every step.
LEMMA TypesPreserved == ASSUME IInv, Step PROVE Types'
  <1> USE DEF Types, mainVars, netVars, sigVars, grpcVars, Servers, HTTP
  <1>0. Types
    BY DEF IInv
  <1>1. CASE EnsureQueue
    <2>1. left' = left \/ (left # <<>> /\ left' = Tail(left))
      BY <1>1 DEF EnsureQueue
    <2>2. left' \in Seq(QueueNames \union BadNames \union {Empty})
      BY <1>0, <2>1
    <2>3. QED
      BY <1>0, <1>1, <2>2 DEF EnsureQueue
  <1>2. CASE Listen
    BY <1>0, <1>2 DEF Listen
  <1>3. CASE StartOpenIDServer
    <2>1. /\ left' = left
          /\ \/ UNCHANGED netVars
             \/ Start("openid", "rest")
             \/ sock' = GrpcClosed /\ UNCHANGED <<http, closed>>
      BY <1>3 DEF StartOpenIDServer
    <2>2. QED
      BY <1>0, <2>1 DEF Start, GrpcClosed
  <1>4. CASE StartRESTServer
    <2>1. /\ left' = left
          /\ UNCHANGED netVars \/ Start("rest", "spawn") \/ CloseServer("openid", GrpcClosed)
      BY <1>4 DEF StartRESTServer, RestFailed
    <2>2. CASE CloseServer("openid", GrpcClosed)
      BY <1>0, <2>1, <2>2, CloseTypes DEF GrpcClosed
    <2>3. QED
      BY <1>0, <2>1, <2>2 DEF Start
  <1>5. CASE SpawnShutdown \/ CloseServing
    BY <1>0, <1>5 DEF SpawnShutdown, CloseServing
  <1>6. CASE ServeBegins \/ ServeReturns \/ ServeFails \/ Exit
    BY <1>0, <1>6 DEF ServeBegins, ServeReturns, ServeFails, Exit, GrpcClosed
  <1>7. CASE Notify \/ Signal \/ ReceiveSignal
    BY <1>0, <1>7 DEF Notify, Signal, ReceiveSignal
  <1>8. CASE AwaitStop \/ CloseHTTPServers
    <2>1. /\ left' = left
          /\ UNCHANGED netVars \/ \E s \in HTTP : CloseServer(s, sock)
      BY <1>8 DEF AwaitStop, CloseHTTPServers, CloseServers
    <2>2. QED
      BY <1>0, <2>1, CloseTypes
  <1>9. CASE GracefulStop \/ Drained
    BY <1>0, <1>9 DEF GracefulStop, StopGracefully, Drained, GrpcClosed
  <1>10. ASSUME NEW s \in HTTP, HTTPServe(s) PROVE Types'
    BY <1>0, <1>10 DEF HTTPServe
  <1>11. ASSUME NEW r \in RPCs, BeginRPC(r) \/ EndRPC(r) PROVE Types'
    BY <1>0, <1>11 DEF BeginRPC, EndRPC
  <1>12. QED
    BY <1>1, <1>2, <1>3, <1>4, <1>5, <1>6, <1>7, <1>8, <1>9, <1>10, <1>11 DEF Step, Run, Shutdown

\* Sockets stay with their servers.
LEMMA SocketsPreserved == ASSUME IInv, Step PROVE SocketsOwned'
  <1> USE DEF mainVars, netVars, sigVars, grpcVars, SocketsOwned, HTTP, Types, Servers
  <1>0. SocketsOwned /\ Types
    BY DEF IInv
  <1>1. CASE EnsureQueue
    BY <1>0, <1>1 DEF EnsureQueue
  <1>2. CASE Listen
    BY <1>0, <1>2 DEF Listen
  <1>3. CASE StartOpenIDServer
    BY <1>0, <1>3 DEF StartOpenIDServer, Start, GrpcClosed
  <1>4. CASE StartRESTServer
    BY <1>0, <1>4 DEF StartRESTServer, Start, RestFailed, CloseServer, GrpcClosed
  <1>5. CASE SpawnShutdown \/ CloseServing
    BY <1>0, <1>5 DEF SpawnShutdown, CloseServing
  <1>6. CASE ServeBegins \/ ServeReturns \/ ServeFails \/ Exit
    BY <1>0, <1>6 DEF ServeBegins, ServeReturns, ServeFails, Exit, GrpcClosed
  <1>7. CASE Notify \/ Signal \/ ReceiveSignal
    BY <1>0, <1>7 DEF Notify, Signal, ReceiveSignal
  <1>8. CASE AwaitStop \/ CloseHTTPServers
    BY <1>0, <1>8 DEF AwaitStop, CloseHTTPServers, CloseServers, CloseServer
  <1>9. CASE GracefulStop \/ Drained
    BY <1>0, <1>9 DEF GracefulStop, StopGracefully, Drained, GrpcClosed
  <1>10. ASSUME NEW s \in HTTP, HTTPServe(s) PROVE SocketsOwned'
    BY <1>0, <1>10 DEF HTTPServe
  <1>11. ASSUME NEW r \in RPCs, BeginRPC(r) \/ EndRPC(r) PROVE SocketsOwned'
    BY <1>0, <1>11 DEF BeginRPC, EndRPC
  <1>12. QED
    BY <1>1, <1>2, <1>3, <1>4, <1>5, <1>6, <1>7, <1>8, <1>9, <1>10, <1>11 DEF Step, Run, Shutdown

\* Shutdown comes after startup, and in order.
LEMMA OrderPreserved == ASSUME IInv, Step PROVE ShutdownOrder'
  <1> USE DEF mainVars, netVars, sigVars, grpcVars, ShutdownOrder, Late, HTTP, Types, Servers
  <1>0. ShutdownOrder /\ SocketsOwned /\ Types
    BY DEF IInv
  <1>1. CASE EnsureQueue
    BY <1>0, <1>1 DEF EnsureQueue
  <1>2. CASE Listen
    BY <1>0, <1>2 DEF Listen
  <1>3. CASE StartOpenIDServer
    BY <1>0, <1>3 DEF StartOpenIDServer, Start, GrpcClosed
  <1>4. CASE StartRESTServer
    BY <1>0, <1>4 DEF StartRESTServer, Start, RestFailed, CloseServer, GrpcClosed
  <1>5. CASE SpawnShutdown \/ CloseServing
    BY <1>0, <1>5 DEF SpawnShutdown, CloseServing
  <1>6. CASE ServeBegins \/ ServeReturns \/ ServeFails \/ Exit
    BY <1>0, <1>6 DEF ServeBegins, ServeReturns, ServeFails, Exit, GrpcClosed
  <1>7. CASE Notify \/ Signal \/ ReceiveSignal
    BY <1>0, <1>7 DEF Notify, Signal, ReceiveSignal
  <1>8. CASE AwaitStop \/ CloseHTTPServers
    BY <1>0, <1>8 DEF AwaitStop, CloseHTTPServers, CloseServers, CloseServer
  <1>9. CASE GracefulStop \/ Drained
    BY <1>0, <1>9 DEF GracefulStop, StopGracefully, Drained, GrpcClosed
  <1>10. ASSUME NEW s \in HTTP, HTTPServe(s) PROVE ShutdownOrder'
    BY <1>0, <1>10 DEF HTTPServe
  <1>11. ASSUME NEW r \in RPCs, BeginRPC(r) \/ EndRPC(r) PROVE ShutdownOrder'
    BY <1>0, <1>11 DEF BeginRPC, EndRPC
  <1>12. QED
    BY <1>1, <1>2, <1>3, <1>4, <1>5, <1>6, <1>7, <1>8, <1>9, <1>10, <1>11 DEF Step, Run, Shutdown

\* The gRPC server is stopped once its calls have ended.
LEMMA LifePreserved == ASSUME IInv, Step PROVE GrpcLife'
  <1> USE DEF mainVars, netVars, sigVars, grpcVars, GrpcLife, Early, Late, Types, Servers, HTTP
  <1>0. GrpcLife /\ ShutdownOrder /\ Types
    BY DEF IInv
  <1>1. CASE EnsureQueue
    BY <1>0, <1>1 DEF EnsureQueue
  <1>2. CASE Listen
    BY <1>0, <1>2 DEF Listen
  <1>3. CASE StartOpenIDServer
    BY <1>0, <1>3 DEF StartOpenIDServer, Start, GrpcClosed
  <1>4. CASE StartRESTServer
    BY <1>0, <1>4 DEF StartRESTServer, Start, RestFailed, CloseServer, GrpcClosed
  <1>5. CASE SpawnShutdown \/ CloseServing
    BY <1>0, <1>5 DEF SpawnShutdown, CloseServing
  <1>6. CASE ServeBegins \/ ServeReturns \/ ServeFails \/ Exit
    BY <1>0, <1>6 DEF ServeBegins, ServeReturns, ServeFails, Exit, GrpcClosed
  <1>7. CASE Notify \/ Signal \/ ReceiveSignal
    BY <1>0, <1>7 DEF Notify, Signal, ReceiveSignal
  <1>8. CASE AwaitStop \/ CloseHTTPServers
    BY <1>0, <1>8 DEF AwaitStop, CloseHTTPServers, CloseServers, CloseServer
  <1>9. CASE GracefulStop \/ Drained
    <2>1. CASE GracefulStop
      <3>1. /\ sd = "grpc" /\ pc' = pc /\ rpcs' = rpcs /\ exit' = exit
            /\ pc \in Late
        BY <1>0, <2>1 DEF GracefulStop, ShutdownOrder
      <3>2. grpc # "stopped" /\ grpc # "draining"
        BY <1>0, <3>1
      <3>3. CASE grpc = "new"
        BY <1>0, <2>1, <3>1, <3>3 DEF GracefulStop, StopGracefully
      <3>4. CASE grpc # "new"
        <4>1. grpc' = "draining" /\ sd' = "drain" /\ sock' = GrpcClosed
          BY <2>1, <3>4 DEF GracefulStop, StopGracefully
        <4>2. sock'["grpc"] = "closed"
          BY <1>0, <4>1 DEF GrpcClosed
        <4>3. QED
          BY <1>0, <3>1, <3>2, <4>1, <4>2
      <3>5. QED
        BY <3>3, <3>4
    <2>2. CASE Drained
      BY <1>0, <2>2 DEF Drained
    <2>3. QED
      BY <1>9, <2>1, <2>2
  <1>10. ASSUME NEW s \in HTTP, HTTPServe(s) PROVE GrpcLife'
    BY <1>0, <1>10 DEF HTTPServe
  <1>11. ASSUME NEW r \in RPCs, BeginRPC(r) \/ EndRPC(r) PROVE GrpcLife'
    BY <1>0, <1>11 DEF BeginRPC, EndRPC
  <1>12. QED
    BY <1>1, <1>2, <1>3, <1>4, <1>5, <1>6, <1>7, <1>8, <1>9, <1>10, <1>11 DEF Step, Run, Shutdown

\* No queue is passed over.
LEMMA PendingPreserved == ASSUME IInv, Step PROVE QueuesPending'
  <1> USE DEF mainVars, netVars, sigVars, grpcVars, QueuesPending
  <1>0. QueuesPending /\ Types
    BY DEF IInv
  <1>1. CASE EnsureQueue
    <2>1. CASE pc' = "failed"
      BY <2>1
    <2>2. CASE /\ pc = "ensure" /\ pc' = pc /\ left # <<>> /\ left' = Tail(left)
               /\ created' = created \union {Head(left)} /\ opts' = opts
      <3> SUFFICES ASSUME NEW i \in DOMAIN opts.queues, opts.queues[i] \notin created'
                   PROVE  \E j \in DOMAIN left' : left'[j] = opts.queues[i]
        BY <2>2
      <3>1. PICK j \in DOMAIN left : left[j] = opts.queues[i]
        BY <1>0, <2>2
      <3>2. j \in 1 .. Len(left) /\ j # 1
        BY <1>0, <2>2, <3>1
      <3>3. j - 1 \in DOMAIN left' /\ left'[j - 1] = left[j]
        BY <1>0, <2>2, <3>2
      <3>4. QED
        BY <3>1, <3>3
    <2>3. QED
      BY <1>1, <2>1, <2>2 DEF EnsureQueue
  <1>2. CASE Listen
    BY <1>0, <1>2 DEF Listen
  <1>3. CASE StartOpenIDServer
    BY <1>0, <1>3 DEF StartOpenIDServer, Start, GrpcClosed
  <1>4. CASE StartRESTServer
    BY <1>0, <1>4 DEF StartRESTServer, Start, RestFailed, CloseServer, GrpcClosed
  <1>5. CASE SpawnShutdown \/ CloseServing
    BY <1>0, <1>5 DEF SpawnShutdown, CloseServing
  <1>6. CASE ServeBegins \/ ServeReturns \/ ServeFails \/ Exit
    BY <1>0, <1>6 DEF ServeBegins, ServeReturns, ServeFails, Exit, GrpcClosed
  <1>7. CASE Notify \/ Signal \/ ReceiveSignal
    BY <1>0, <1>7 DEF Notify, Signal, ReceiveSignal
  <1>8. CASE AwaitStop \/ CloseHTTPServers
    BY <1>0, <1>8 DEF AwaitStop, CloseHTTPServers, CloseServers, CloseServer
  <1>9. CASE GracefulStop \/ Drained
    BY <1>0, <1>9 DEF GracefulStop, StopGracefully, Drained, GrpcClosed
  <1>10. ASSUME NEW s \in HTTP, HTTPServe(s) PROVE QueuesPending'
    BY <1>0, <1>10 DEF HTTPServe
  <1>11. ASSUME NEW r \in RPCs, BeginRPC(r) \/ EndRPC(r) PROVE QueuesPending'
    BY <1>0, <1>11 DEF BeginRPC, EndRPC
  <1>12. QED
    BY <1>1, <1>2, <1>3, <1>4, <1>5, <1>6, <1>7, <1>8, <1>9, <1>10, <1>11 DEF Step, Run, Shutdown

\* A start that fails has not reached the shutdown goroutine.
LEMMA FailedPreserved == ASSUME IInv, Step PROVE FailedWithoutServing'
  <1> USE DEF mainVars, netVars, sigVars, grpcVars, ShutdownOrder, GrpcLife, FailedWithoutServing, Late, Early
  <1>0. FailedWithoutServing /\ ShutdownOrder /\ GrpcLife
    BY DEF IInv
  <1>1. CASE EnsureQueue
    BY <1>0, <1>1 DEF EnsureQueue
  <1>2. CASE Listen
    BY <1>0, <1>2 DEF Listen
  <1>3. CASE StartOpenIDServer
    BY <1>0, <1>3 DEF StartOpenIDServer, Start, GrpcClosed
  <1>4. CASE StartRESTServer
    BY <1>0, <1>4 DEF StartRESTServer, Start, RestFailed, CloseServer, GrpcClosed
  <1>5. CASE SpawnShutdown \/ CloseServing
    BY <1>0, <1>5 DEF SpawnShutdown, CloseServing
  <1>6. CASE ServeBegins \/ ServeReturns \/ ServeFails \/ Exit
    BY <1>0, <1>6 DEF ServeBegins, ServeReturns, ServeFails, Exit, GrpcClosed
  <1>7. CASE Notify \/ Signal \/ ReceiveSignal
    BY <1>0, <1>7 DEF Notify, Signal, ReceiveSignal
  <1>8. CASE AwaitStop \/ CloseHTTPServers
    BY <1>0, <1>8 DEF AwaitStop, CloseHTTPServers, CloseServers, CloseServer
  <1>9. CASE GracefulStop \/ Drained
    BY <1>0, <1>9 DEF GracefulStop, StopGracefully, Drained, GrpcClosed
  <1>10. ASSUME NEW s \in HTTP, HTTPServe(s) PROVE FailedWithoutServing'
    BY <1>0, <1>10 DEF HTTPServe
  <1>11. ASSUME NEW r \in RPCs, BeginRPC(r) \/ EndRPC(r) PROVE FailedWithoutServing'
    BY <1>0, <1>11 DEF BeginRPC, EndRPC
  <1>12. QED
    BY <1>1, <1>2, <1>3, <1>4, <1>5, <1>6, <1>7, <1>8, <1>9, <1>10, <1>11 DEF Step, Run, Shutdown

\* Every way out of run() closes what it has opened.
LEMMA LeavesNothingPreserved == ASSUME IInv, Step PROVE FailedStartLeavesNothing'
  <1> USE DEF mainVars, netVars, sigVars, grpcVars, Types, SocketsOwned, FailedWithoutServing, FailedStartLeavesNothing, HTTP, Servers
  <1>0. FailedStartLeavesNothing /\ SocketsOwned /\ FailedWithoutServing /\ Types
    BY DEF IInv
  <1>1. CASE EnsureQueue
    BY <1>0, <1>1 DEF EnsureQueue
  <1>2. CASE Listen
    BY <1>0, <1>2 DEF Listen
  <1>3. CASE StartOpenIDServer
    BY <1>0, <1>3 DEF StartOpenIDServer, Start, GrpcClosed
  <1>4. CASE StartRESTServer
    BY <1>0, <1>4 DEF StartRESTServer, Start, RestFailed, CloseServer, GrpcClosed
  <1>5. CASE SpawnShutdown \/ CloseServing
    BY <1>0, <1>5 DEF SpawnShutdown, CloseServing
  <1>6. CASE ServeBegins \/ ServeReturns \/ ServeFails \/ Exit
    BY <1>0, <1>6 DEF ServeBegins, ServeReturns, ServeFails, Exit, GrpcClosed
  <1>7. CASE Notify \/ Signal \/ ReceiveSignal
    BY <1>0, <1>7 DEF Notify, Signal, ReceiveSignal
  <1>8. CASE AwaitStop \/ CloseHTTPServers
    BY <1>0, <1>8 DEF AwaitStop, CloseHTTPServers, CloseServers, CloseServer
  <1>9. CASE GracefulStop \/ Drained
    BY <1>0, <1>9 DEF GracefulStop, StopGracefully, Drained, GrpcClosed
  <1>10. ASSUME NEW s \in HTTP, HTTPServe(s) PROVE FailedStartLeavesNothing'
    BY <1>0, <1>10 DEF HTTPServe
  <1>11. ASSUME NEW r \in RPCs, BeginRPC(r) \/ EndRPC(r) PROVE FailedStartLeavesNothing'
    BY <1>0, <1>11 DEF BeginRPC, EndRPC
  <1>12. QED
    BY <1>1, <1>2, <1>3, <1>4, <1>5, <1>6, <1>7, <1>8, <1>9, <1>10, <1>11 DEF Step, Run, Shutdown

\* Every step keeps the invariant.
LEMMA NextPreserves == IInv /\ [Next]_vars => IInv'
  <1> SUFFICES ASSUME IInv, [Next]_vars PROVE IInv'
    OBVIOUS
  <1>1. CASE UNCHANGED vars
    BY <1>1 DEF vars, IInv, Types, SocketsOwned, ShutdownOrder, GrpcLife, QueuesPending,
                FailedWithoutServing, FailedStartLeavesNothing
  <1>2. CASE Step
    BY <1>2, TypesPreserved, SocketsPreserved, OrderPreserved, LifePreserved, PendingPreserved,
       FailedPreserved, LeavesNothingPreserved DEF IInv
  <1>3. QED
    BY <1>1, <1>2 DEF Next, Ended

\* The strengthening holds of every reachable state.
LEMMA Invariance == Spec => []IInv
  <1>1. Init => IInv
    BY InitEstablishes, StartupAssumption
  <1>2. QED
    BY <1>1, NextPreserves, PTL DEF Spec

\* Whichever step of run() fails before it serves, no listener is left that nobody closes.
THEOREM FailedStartCorrect == Spec => []FailedStartLeavesNothing
  <1>1. IInv => FailedStartLeavesNothing
    BY DEF IInv
  <1>2. QED
    BY <1>1, Invariance, PTL

\* Every queue that is asked for exists before the address is announced.
THEOREM QueuesBeforeReadyCorrect == Spec => []QueuesBeforeReady
  <1>1. IInv => QueuesBeforeReady
    BY DEF IInv, QueuesPending, QueuesBeforeReady
  <1>2. QED
    BY <1>1, Invariance, PTL

\* A process that ends with success has finished its calls and closed its servers.
THEOREM CleanExitCorrect == Spec => []CleanExit
  <1>1. IInv => CleanExit
    BY DEF IInv, GrpcLife, ShutdownOrder, CleanExit, HTTP
  <1>2. QED
    BY <1>1, Invariance, PTL
=============================================================================
