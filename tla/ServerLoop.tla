----------------------------- MODULE ServerLoop -----------------------------
(***************************************************************************)
(* The accept loops of the servers of dpdk-net-test/src/app and of serve   *)
(* of dpdk-net-tonic, and how they are stopped.                            *)
(*                                                                         *)
(*   "simple", "auto", "http1", "http2", "echo", "axum"                    *)
(*        one loop on an lcore, ended by the application's token;          *)
(*   "tokio"        one loop on a multi-threaded runtime, Ctrl-C a branch  *)
(*                  of its select!;                                        *)
(*   "tokio_cores"  one loop per core, core 0 on the main thread, Ctrl-C   *)
(*                  cancels a token, main joins the others;                *)
(*   "kimojio"      one loop per core, Ctrl-C sets a flag, main joins all. *)
(*                                                                         *)
(* What serves a connection is hyper (external) for "auto", "http1",       *)
(* "http2" and the tokio servers: a task that takes requests until the     *)
(* connection ends.  HttpServer.tla puts HttpConnection in its place for   *)
(* the servers that have their own parser.                                 *)
(***************************************************************************)
EXTENDS Integers, FiniteSets

VARIABLES
  server,     \* which server runs
  cores,      \* available_parallelism: the cores it uses, 0 the main one
  main,       \* the thread that called it
  loop,       \* the accept loop of each core
  conn,       \* the connection of each client
  core,       \* the core whose listener has it
  proto,      \* the protocol its client speaks
  stop,       \* the token is cancelled, the flag set, or ctrl_c() has fired
  listening   \* "tokio": the ctrl_c() of this iteration is registered

loopVars == <<server, cores, main, loop, conn, core, proto, stop, listening>>

Clients == DOMAIN conn

\* "collecting": its body is being collected for the handler.
ConnStates == {"none", "queued", "open", "collecting", "done"}
LoopStates ==
  {"off", "binding", "select", "check", "accept", "stopped", "failed"}
MainStates == {"spawning", "serving", "joining", "returned", "panicked"}

OneLoop == {"simple", "auto", "http1", "http2", "echo", "axum", "tokio"}

Servers == OneLoop \cup {"tokio_cores", "kimojio"}

\* These run their loops on runtimes of their own.
OwnRuntime == {"tokio", "tokio_cores", "kimojio"}

Ended(c) == loop[c] \in {"stopped", "failed"}

\* The threads main joins.
Workers == IF server = "kimojio" THEN cores ELSE cores \ {0}

-----------------------------------------------------------------------------

\* The listener of an lcore's server exists before the server is made.
InitLoop(s, n, clients) ==
  /\ server = s /\ cores = IF s \in OneLoop THEN {0} ELSE 0..n - 1
  /\ main = IF s \in OneLoop THEN "serving" ELSE "spawning"
  /\ loop = [c \in cores |->
               IF s \in OneLoop \ {"tokio"} THEN "select" ELSE "off"]
  /\ conn = [k \in clients |-> "none"]
  /\ core = [k \in clients |-> 0]
  /\ proto \in [clients -> IF s \in {"auto", "http1", "http2", "axum"}
                         THEN {"h1", "h2"} ELSE {"h1"}]
  /\ stop = FALSE /\ listening = FALSE

\* A loop ends: its listener closes with the connections queued there.  Where
\* the loop has its own runtime the tasks of its connections are dropped too;
\* those of an lcore belong to the LocalSet, which outlives the server.
EndLoop(c, how) ==
  /\ loop' = [loop EXCEPT ![c] = how]
  /\ conn' = [k \in Clients |->
       IF core[k] = c /\ conn[k] = "queued" THEN "done"
       ELSE IF core[k] = c /\ server \in OwnRuntime
            THEN (IF conn[k] = "none" THEN "none" ELSE "done")
       ELSE conn[k]]

\* The main thread spawns its workers in order.
Spawn(c) ==
  /\ main = "spawning" /\ c \in Workers
  /\ loop[c] = "off" /\ \A d \in Workers : d < c => loop[d] # "off"
  /\ loop' = [loop EXCEPT ![c] = "binding"]
  /\ UNCHANGED <<server, cores, main, conn, core, proto, stop, listening>>

\* run_tokio_thread_per_core_server goes on as core 0, with a task that waits
\* for Ctrl-C; run_kimojio_thread_per_core_server sets its handler and joins.
Spawned ==
  /\ main = "spawning" /\ \A c \in Workers : loop[c] # "off"
  /\ main' = IF server = "kimojio" THEN "joining" ELSE "serving"
  /\ loop' = IF server = "kimojio" THEN loop
             ELSE [loop EXCEPT ![0] = "binding"]
  /\ UNCHANGED <<server, cores, conn, core, proto, stop, listening>>

TokioBind ==
  /\ server = "tokio" /\ loop[0] = "off"
  /\ loop' = [loop EXCEPT ![0] = "binding"]
  /\ UNCHANGED <<server, cores, main, conn, core, proto, stop, listening>>

\* Bound with SO_REUSEPORT.
Bind(c) ==
  /\ loop[c] = "binding"
  /\ loop' = [loop EXCEPT ![c] =
                IF server = "kimojio" THEN "check" ELSE "select"]
  /\ UNCHANGED <<server, cores, main, conn, core, proto, stop, listening>>

\* A worker that cannot bind ends, by expect() or `?`; on the main thread
\* expect() ends the process.
BindFails(c) ==
  /\ loop[c] = "binding"
  /\ EndLoop(c, "failed")
  /\ main' = IF main = "serving" /\ c = 0 THEN "panicked" ELSE main
  /\ UNCHANGED <<server, cores, core, proto, stop, listening>>

\* A client connects to the listener of core c; a connection that is over may
\* be followed by another one.
Connect(k, c) ==
  /\ conn[k] \in {"none", "done"} /\ loop[c] \in {"select", "check", "accept"}
  /\ conn' = [conn EXCEPT ![k] = "queued"]
  /\ core' = [core EXCEPT ![k] = c]
  /\ UNCHANGED <<server, cores, main, loop, proto, stop, listening>>

Queued(c) == {k \in Clients : conn[k] = "queued" /\ core[k] = c}

\* accept() returns a stream: its task is spawned.
Accepted(c) ==
  \E k \in Queued(c) : conn' = [conn EXCEPT ![k] = "open"]

\* The select! of an accept loop: of two ready branches it takes either; an
\* error of accept() is only logged.
SelectAccept(c) ==
  /\ loop[c] = "select" /\ Accepted(c)
  /\ UNCHANGED <<server, cores, main, loop, core, proto, stop, listening>>

\* Mutant of SelectStop: a biased select!, accept() first.
MutantAcceptFirst(c) ==
  /\ loop[c] = "select" /\ stop /\ Queued(c) = {}
  /\ EndLoop(c, "stopped")
  /\ UNCHANGED <<server, cores, main, core, proto, stop, listening>>

SelectStop(c) ==
  /\ loop[c] = "select" /\ stop
  /\ EndLoop(c, "stopped")
  /\ UNCHANGED <<server, cores, main, core, proto, stop, listening>>

SelectLoop(c) == SelectAccept(c) \/ SelectStop(c)

SimpleHttp1Server == server = "simple" /\ SelectLoop(0)
HttpAutoServer == server = "auto" /\ SelectLoop(0)
Http1Server == server = "http1" /\ SelectLoop(0)
Http2Server == server = "http2" /\ SelectLoop(0)
EchoServer == server = "echo" /\ SelectLoop(0)

\* serve of axum, which serve of tonic calls with the routes of a gRPC server;
\* its stop is the caller's shutdown future.
AxumServe == server = "axum" /\ SelectLoop(0)

RunAcceptLoop(c) == server = "tokio_cores" /\ SelectLoop(c)

\* The select! of "tokio" makes a new ctrl_c() future in each round.  Polling
\* it registers it; when accept() wins, the future is dropped, with the signal
\* it may have got.
TokioSelect ==
  /\ server = "tokio" /\ loop[0] = "select"
  /\ \/ ~listening /\ listening' = TRUE /\ UNCHANGED <<loop, conn, stop>>
     \/ Accepted(0) /\ listening' = FALSE /\ stop' = FALSE /\ UNCHANGED loop
     \/ stop /\ EndLoop(0, "stopped") /\ UNCHANGED <<listening, stop>>
  /\ UNCHANGED <<server, cores, main, core, proto>>

\* run_kimojio_accept_loop looks at the flag between two accepts only; an
\* error of accept() ends the loop.
KimojioLoop(c) ==
  /\ server = "kimojio"
  /\ \/ /\ loop[c] = "check" /\ stop /\ EndLoop(c, "stopped")
     \/ /\ loop[c] = "check" /\ ~stop
        /\ loop' = [loop EXCEPT ![c] = "accept"] /\ UNCHANGED conn
     \/ /\ loop[c] = "accept" /\ Accepted(c)
        /\ loop' = [loop EXCEPT ![c] = "check"]
     \/ loop[c] = "accept" /\ EndLoop(c, "failed")
  /\ UNCHANGED <<server, cores, main, core, proto, stop, listening>>

\* Ctrl-C: the application cancels the token of a server on an lcore, the
\* signal task that of the tokio workers, and the handler sets kimojio's flag;
\* "tokio" hears it only while its future is registered.
CtrlC ==
  /\ ~stop
  /\ main = IF server = "kimojio" THEN "joining" ELSE "serving"
  /\ server = "tokio" => listening
  /\ stop' = TRUE
  /\ UNCHANGED <<server, cores, main, loop, conn, core, proto, listening>>

\* The call ends: the lcore's run and the tokio server with their loop, the
\* others when every worker thread is joined.
CoreZeroEnded ==
  /\ main = "serving" /\ Ended(0)
  /\ main' = IF server \in OneLoop THEN "returned" ELSE "joining"
  /\ UNCHANGED <<server, cores, loop, conn, core, proto, stop, listening>>

\* Mutant of Join: the first worker to end is enough.
MutantJoinsOne ==
  /\ main = "joining" /\ \E c \in Workers : Ended(c)
  /\ main' = "returned"
  /\ UNCHANGED <<server, cores, loop, conn, core, proto, stop, listening>>

Join ==
  /\ main = "joining" /\ \A c \in Workers : Ended(c)
  /\ main' = "returned"
  /\ UNCHANGED <<server, cores, loop, conn, core, proto, stop, listening>>

-----------------------------------------------------------------------------
(* Connections served by hyper.                                            *)

Hyper == {"auto", "http1", "http2", "axum", "tokio", "tokio_cores"}

\* What serve_connection of each builder speaks.
Speaks(s) ==
  CASE s \in {"auto", "axum"} -> {"h1", "h2"} [] s = "http2" -> {"h2"}
    [] OTHER -> {"h1"}

SetConn(k, s) ==
  /\ conn' = [conn EXCEPT ![k] = s]
  /\ UNCHANGED <<server, cores, main, loop, core, proto, stop, listening>>

\* hyper has a request (with_collected_body is called), or the connection is
\* over: closed by its client, or not in the protocol served.
HyperServe(k) ==
  /\ server \in Hyper /\ conn[k] = "open"
  /\ \/ proto[k] \in Speaks(server) /\ SetConn(k, "collecting")
     \/ SetConn(k, "done")

\* with_collected_body: the handler is called with the whole body; an error
\* while it is collected ends the connection.  For axum it is the router that
\* answers.
with_collected_body(k) ==
  /\ server \in Hyper /\ conn[k] = "collecting"
  /\ SetConn(k, "open") \/ SetConn(k, "done")

\* The application drops the LocalSet after the server returned.
LocalSetDropped ==
  /\ main = "returned" /\ server \notin OwnRuntime
  /\ \E k \in Clients : conn[k] \in {"open", "collecting"}
  /\ conn' = [k \in Clients |-> IF conn[k] = "none" THEN "none" ELSE "done"]
  /\ UNCHANGED <<server, cores, main, loop, core, proto, stop, listening>>

MainStep == Spawned \/ TokioBind \/ CoreZeroEnded \/ Join

LcoreServer ==
  \/ SimpleHttp1Server \/ HttpAutoServer \/ Http1Server \/ Http2Server
  \/ EchoServer \/ AxumServe

CoreStep(c) == Spawn(c) \/ Bind(c) \/ RunAcceptLoop(c) \/ KimojioLoop(c)

LoopStep ==
  MainStep \/ LcoreServer \/ TokioSelect \/ \E c \in cores : CoreStep(c)

LoopNext ==
  \/ LoopStep \/ CtrlC \/ LocalSetDropped
  \/ \E c \in cores : BindFails(c) \/ \E k \in Clients : Connect(k, c)
  \/ \E k \in Clients : HyperServe(k) \/ with_collected_body(k)

-----------------------------------------------------------------------------

\* A server returns when all it started is over: no loop runs on, none is
\* about to start, and no thread of it still has a connection.
ReturnsLast ==
  main = "returned" =>
    /\ \A c \in cores : Ended(c)
    /\ server \in OwnRuntime =>
         \A k \in Clients : conn[k] \in {"none", "done"}

\* Once stopped a server returns, however many connections wait: select!
\* takes either of two ready branches, but not the same one for ever.  It is
\* not promised by "tokio", whose accept() may swallow the signal, nor by
\* "kimojio", whose loops look at the flag after one more connection.
StopReturns ==
  [](stop /\ server \notin {"tokio", "kimojio"}
     => <>(main \in {"returned", "panicked"}))
=============================================================================
