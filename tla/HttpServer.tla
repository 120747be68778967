----------------------------- MODULE HttpServer -----------------------------
(***************************************************************************)
(* A server of dpdk-net-test/src/app at work: its accept loops             *)
(* (ServerLoop) and one of its connections in full (HttpConnection).  The  *)
(* task of that connection starts when the loop accepts it and may be      *)
(* dropped at any await, when the server stops.                            *)
(***************************************************************************)
EXTENDS HttpConnection, ServerLoop

CONSTANTS
  Instances,  \* records: a server, its cores, connections and scripts
  Watched     \* the connection served by HttpConnection

ASSUME InstancesAssumption ==
  \A i \in Instances :
    /\ i.server \in Servers /\ i.cores \in Nat \ {0} /\ Watched \in i.conns
    /\ i.scripts \subseteq Seq(Requests)
    /\ \A s \in i.scripts : \A k \in 1..Len(s) : Honest(s[k], k)
    /\ i.server = "kimojio" => i.clients = {"sequential"}

VARIABLE cut  \* its task was dropped, by the end of the server

vars == <<connectionVars, loopVars, cut>>

ImplOf(s) ==
  CASE s = "simple" -> "custom" [] s \in {"kimojio", "echo"} -> s
    [] OTHER -> "hyper"

Init ==
  \E i \in Instances, how \in {"pipelines", "sequential"} :
    /\ how \in i.clients
    /\ InitLoop(i.server, i.cores, i.conns)
    /\ \E s \in i.scripts : InitConnection(ImplOf(i.server), how, s)
    /\ cut = FALSE

Serving == conn[Watched] = "open" /\ impl # "hyper"

\* A step of the task; when handle_connection returns the stream is dropped.
Serve ==
  /\ Serving /\ ConnectionNext
  /\ conn' = [conn EXCEPT ![Watched] = IF stage' = "closed" THEN "done" ELSE @]
  /\ UNCHANGED <<server, cores, main, loop, core, proto, stop, listening, cut>>

\* A connection other than the watched one ends.
OtherDone(k) ==
  /\ impl # "hyper" /\ k # Watched /\ conn[k] = "open"
  /\ SetConn(k, "done") /\ UNCHANGED <<connectionVars, cut>>

\* The watched connection is opened once.
Loop(A) ==
  /\ A
  /\ ~(impl # "hyper" /\ conn[Watched] = "done" /\ conn'[Watched] = "queued")
  /\ cut' = (cut \/ (Serving /\ conn'[Watched] = "done"))
  /\ UNCHANGED connectionVars

Next ==
  /\ main # "panicked"
  /\ \/ Serve \/ Loop(LoopNext)
     \/ \E k \in Clients : OtherDone(k)

AllCores == UNION {0..i.cores - 1 : i \in Instances}

\* Threads and tasks run: the task of a connection with something to do is
\* polled, every core's loop and the main thread go on, and a cancelled token
\* is not passed over for ever by select!.  Nothing is assumed of clients,
\* signals and bind().
Fairness ==
  /\ WF_vars(Serve /\ Server)
  /\ WF_vars(Loop(MainStep))
  /\ WF_vars(Loop(LcoreServer))
  /\ \A c \in AllCores :
       /\ WF_vars(Loop(c \in cores /\ (CoreStep(c) \/ BindFails(c))))
       /\ WF_vars(Loop(c \in cores /\ server # "tokio" /\ SelectStop(c)))

Spec == Init /\ [][Next]_vars /\ Fairness

-----------------------------------------------------------------------------

\* Every request of an accepted connection is answered, unless the client
\* goes away or the server stops: none waits in the buffer for bytes that
\* will not come (handle_connection's loop, custom_http.rs:545).
Answered ==
  [](Serving /\ impl # "echo" =>
     <>(eof \/ broken \/ cut \/ Len(responses) >= Owed))
=============================================================================
