----------------------------- MODULE ServerMain ------------------------------
(***************************************************************************)
(* server/server.cc: main starts the gRPC, UDP and HTTP servers, a signal  *)
(* sets shutdown_required, and ShutdownCheckingThread then shuts the       *)
(* servers down.  The gRPC server is AsyncServer.                          *)
(*                                                                         *)
(* The handler takes no mutex, so a signal may come between the thread's   *)
(* test of shutdown_required and its wait.                                 *)
(***************************************************************************)
EXTENDS AsyncServer

VARIABLES
    main,               \* the last step of main
    checker,            \* where ShutdownCheckingThread is
    shutdown_required,
    http,               \* external: proxygen's "idle", "running", "stopped"
    udp                 \* the I/O thread: "none", "running", "stopped"

mainVars == <<main, checker, shutdown_required, http, udp>>
allVars == <<vars, mainVars>>

\* The type invariant of the process.
MainTypeOK ==
    /\ TypeOK
    /\ main \in {"initialising", "failed", "registered", "constructed", "grpc",
                 "http", "waiting", "closed", "joined", "returned"}
    /\ checker \in {"none", "test", "tested", "blocked", "shutdown", "crashed",
                    "stopping", "exited"}
    /\ shutdown_required \in BOOLEAN
    /\ http \in {"idle", "running", "stopped"}
    /\ udp \in {"none", "running", "stopped"}

MainInit ==
    /\ Init
    /\ main = "initialising"
    /\ checker = "none"
    /\ shutdown_required = FALSE
    /\ http = "idle"
    /\ udp = "none"

\* The process has not ended.
Alive == main \notin {"failed", "returned"} /\ checker # "crashed"

GrpcStarted ==
    main \notin {"initialising", "failed", "registered", "constructed"}

-----------------------------------------------------------------------------
(* main *)

\* The managers are initialised; main gives up if the UserManager fails.  Then
\* the signal handler is registered and ShutdownCheckingThread started.
Initialise ==
    /\ main = "initialising"
    /\ \/ main' = "registered" /\ checker' = "test"
       \/ main' = "failed" /\ UNCHANGED checker
    /\ UNCHANGED <<vars, shutdown_required, http, udp>>

MainStep(from, to) == Alive /\ main = from /\ main' = to

\* The three servers are constructed and the global pointers set; an address
\* that cannot be bound throws, and nothing catches it.
Construct ==
    /\ \E to \in {"constructed", "failed"} : MainStep("registered", to)
    /\ UNCHANGED <<vars, checker, shutdown_required, http, udp>>

StartGrpc ==
    /\ MainStep("constructed", "grpc")
    /\ UNCHANGED <<vars, checker, shutdown_required, http, udp>>

\* HttpServer::Shutdown has no effect on a server that does not run.
HttpStop == http' = IF http = "running" THEN "stopped" ELSE http

UdpStart == udp' = "running"
UdpShutdown == udp' = "stopped"

\* udp_server.Start() and http_server.Start(), which blocks ...
StartUdpAndHttp ==
    /\ MainStep("grpc", "http")
    /\ http' = "running"
    /\ UdpStart
    /\ UNCHANGED <<vars, checker, shutdown_required>>

\* ... until another thread stops the HTTP server.
HttpReturns ==
    /\ http = "stopped"
    /\ MainStep("http", "waiting")
    /\ UNCHANGED <<vars, checker, shutdown_required, http, udp>>

\* Server::WaitForShutdown returns when grpc::Server is shut down.
WaitForShutdown == shutdown \in {"closed", "drained", "done"}

\* main stops the HTTP server once more and the UDP server.
CloseServers ==
    /\ WaitForShutdown
    /\ MainStep("waiting", "closed")
    /\ HttpStop
    /\ UdpShutdown
    /\ UNCHANGED <<vars, checker, shutdown_required>>

\* Mutant: shutdown_thread is detached instead of joined.
JoinCheckerNot ==
    /\ MainStep("closed", "joined")
    /\ UNCHANGED <<vars, checker, shutdown_required, http, udp>>

JoinChecker ==
    /\ checker = "exited"
    /\ MainStep("closed", "joined")
    /\ UNCHANGED <<vars, checker, shutdown_required, http, udp>>

\* The managers are stopped and main returns, which destroys the servers: the
\* UDP server's destructor joins its I/O thread.
Return0 ==
    /\ udp = "stopped"
    /\ MainStep("joined", "returned")
    /\ UNCHANGED <<vars, checker, shutdown_required, http, udp>>

Main ==
    \/ Initialise \/ Construct \/ StartGrpc \/ StartUdpAndHttp \/ HttpReturns
    \/ CloseServers \/ JoinChecker \/ Return0

-----------------------------------------------------------------------------
(* The signal handler and ShutdownCheckingThread *)

\* Mutant: the handler does not notify.
SignalHandlerQuiet ==
    /\ Alive /\ checker # "none"
    /\ shutdown_required' = TRUE
    /\ UNCHANGED <<vars, main, checker, http, udp>>

SignalHandler ==
    /\ Alive /\ checker # "none"
    /\ shutdown_required' = TRUE
    /\ checker' = IF checker = "blocked" THEN "test" ELSE checker
    /\ UNCHANGED <<vars, main, http, udp>>

CheckerStep(from, to) ==
    /\ Alive /\ checker = from
    /\ checker' = to
    /\ UNCHANGED <<vars, main, shutdown_required, udp>>

\* The predicate of cv.wait.
TestRequired ==
    /\ CheckerStep("test", IF shutdown_required THEN "shutdown" ELSE "tested")
    /\ UNCHANGED http

\* The wait itself, which a signal that came just before does not end.
Block == CheckerStep("tested", "blocked") /\ UNCHANGED http

\* A condition variable may wake up by itself.
SpuriousWakeup == CheckerStep("blocked", "test") /\ UNCHANGED http

\* grpc_server_ptr->Shutdown() before the pointer is set or the server started
\* goes through a null pointer.
ShutdownTooEarly ==
    /\ ~GrpcStarted
    /\ CheckerStep("shutdown", "crashed")
    /\ UNCHANGED http

GrpcShutdown ==
    /\ GrpcStarted /\ Alive /\ checker = "shutdown"
    /\ SetFlag \/ Shutdown
    /\ UNCHANGED mainVars

\* Mutant: stopping the HTTP server is left to main.
HttpShutdownByMain ==
    /\ shutdown = "done"
    /\ CheckerStep("shutdown", "stopping")
    /\ UNCHANGED http

\* http_server_ptr->Shutdown() lets the thread blocked in Start go before it is
\* through itself.
HttpShutdown ==
    /\ shutdown = "done"
    /\ CheckerStep("shutdown", "stopping")
    /\ HttpStop

CheckerReturns == CheckerStep("stopping", "exited") /\ UNCHANGED http

Checker ==
    \/ TestRequired \/ Block \/ ShutdownTooEarly \/ GrpcShutdown \/ HttpShutdown
    \/ CheckerReturns

-----------------------------------------------------------------------------

\* A step of the gRPC server's threads.
Serve(step) == GrpcStarted /\ Alive /\ step /\ UNCHANGED mainVars

MainNext ==
    \/ Main
    \/ SignalHandler
    \/ Checker
    \/ SpuriousWakeup
    \/ \E q \in Queues : Serve(RunEventQueue(q))
    \/ \E i \in Rpcs : Serve(RunCompletionQueue(i))

\* The threads run, gRPC returns what Fairness of AsyncServer says, and clients
\* leave in the end, by themselves or because their process stops; no signal
\* needs to come.
MainFairness ==
    /\ WF_allVars(Main)
    /\ WF_allVars(Checker)
    /\ \A q \in Queues : WF_allVars(Serve(RunEventQueue(q)))
    /\ \A i \in Rpcs :
          /\ WF_allVars(Serve(call[i] = "over" /\ RunCompletionQueue(i)))
          /\ WF_allVars(Serve(/\ call[i] = "none" /\ grpc_down
                              /\ RunCompletionQueue(i)))
          /\ WF_allVars(Serve("FINISH" \in ops[i] /\ RunCompletionQueue(i)))
          /\ WF_allVars(Serve(HangUp(i) /\ UNCHANGED serverVars))

MainSpec == MainInit /\ [][MainNext]_allVars /\ MainFairness

-----------------------------------------------------------------------------

\* A signal that the thread has yet to notice, or has noticed, while the three
\* servers run makes main return.  Only the signal that falls between the test
\* and the wait of ShutdownCheckingThread (and leaves it blocked) does not.
SignalEndsServer ==
    main = "http" /\ shutdown_required /\ checker \in {"test", "shutdown"}
        ~> main = "returned"

\* One that falls there is made good by the next: a server that was up before
\* the first signal returns from main if the signal is repeated.
RepeatedSignalEndsServer ==
    WF_allVars(SignalHandler)
        => (main = "http" /\ ~shutdown_required ~> main = "returned")

\* main stops the managers and destroys the servers only when nothing uses them
\* any more: Server::Shutdown is complete, every event thread has ended, and
\* ShutdownCheckingThread is through with both pointers.
ServersEndFirst ==
    main \in {"joined", "returned"} =>
        /\ shutdown = "done" /\ exited = Queues
        /\ checker = "exited"
        /\ \A q \in Queues : Idle(q)

==============================================================================
