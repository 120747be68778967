----------------------------- MODULE HttpProofs -----------------------------
(***************************************************************************)
(* The HTTP servers and the client's pool of connections.  A server        *)
(* returns last, hands its handler the requests of a connection as they    *)
(* were sent and answers them in order: for every server, number of cores  *)
(* and of connections, and every script of a client.  The pool keeps its   *)
(* bound and hands out connections that can be used: for every number of   *)
(* hosts and connections and every bound but zero.                         *)
(***************************************************************************)
EXTENDS HttpServer, SequenceLemmas

\* The client's pool: see the last section.
CONSTANTS Hosts, Conns, Nobody, MaxIdle, Version

VARIABLES connections, state, to, mine, call, panicked

P == INSTANCE ConnectionPool WITH conn <- state

LoopTypeOK ==
  /\ server \in Servers /\ main \in MainStates
  /\ cores \subseteq Nat /\ 0 \in cores
  /\ loop \in [cores -> LoopStates]
  /\ conn \in [Clients -> ConnStates] /\ core \in [Clients -> cores]
  /\ Watched \in Clients

\* What main knows of the loops when it joins and when it returns.
MainKnows ==
  /\ main = "returned" => \A c \in cores : Ended(c)
  /\ main = "joining" /\ server # "kimojio" => Ended(0)
  /\ server \in OneLoop =>
       cores = {0} /\ main \in {"serving", "returned", "panicked"}

\* The connections of a server with its own runtimes end with their loop.
EndTogether ==
  server \in OwnRuntime =>
    \A k \in Clients : conn[k] \in {"none", "done"} \/ ~Ended(core[k])

LoopInv == LoopTypeOK /\ MainKnows /\ EndTogether

\* At the start every loop runs and main has not joined.
LEMMA InitLoopInv == ASSUME Init PROVE LoopInv
<1>1. PICK i \in Instances : InitLoop(i.server, i.cores, i.conns)
  BY DEF Init
<1> DEFINE s == i.server
           n == i.cores
<1>2. s \in Servers /\ n \in Nat \ {0} /\ Watched \in i.conns
  BY InstancesAssumption
<1>3. /\ server = s /\ cores = IF s \in OneLoop THEN {0} ELSE 0..n - 1
      /\ main = IF s \in OneLoop THEN "serving" ELSE "spawning"
      /\ loop = [c \in cores |->
                   IF s \in OneLoop \ {"tokio"} THEN "select" ELSE "off"]
      /\ conn = [k \in i.conns |-> "none"] /\ core = [k \in i.conns |-> 0]
  BY <1>1 DEF InitLoop
<1> HIDE DEF s, n
<1>4. cores \subseteq Nat /\ 0 \in cores
  BY <1>2, <1>3
<1>5. LoopTypeOK
  BY <1>2, <1>3, <1>4 DEF LoopTypeOK, Clients, MainStates, LoopStates, ConnStates
<1>6. MainKnows
  BY <1>2, <1>3 DEF MainKnows
<1>7. EndTogether
  BY <1>3 DEF EndTogether, Clients
<1> QED BY <1>5, <1>6, <1>7 DEF LoopInv

\* A connection that moves on without its loop.
LEMMA ConnStep ==
  ASSUME LoopInv, NEW k \in Clients, NEW s \in ConnStates,
         conn' = [conn EXCEPT ![k] = s],
         s \in {"none", "done"} \/ conn[k] \notin {"none", "done"},
         UNCHANGED <<server, cores, main, loop, core>>
  PROVE  LoopInv'
<1>1. Clients' = Clients
  BY DEF Clients, LoopInv, LoopTypeOK
<1>2. LoopTypeOK'
  BY <1>1 DEF LoopInv, LoopTypeOK
<1>3. MainKnows'
  BY DEF LoopInv, MainKnows, Ended
<1>4. EndTogether'
  BY <1>1 DEF LoopInv, LoopTypeOK, EndTogether, Ended
<1> QED BY <1>2, <1>3, <1>4 DEF LoopInv

\* A loop ends, with its connections.
LEMMA EndLoopStep ==
  ASSUME LoopInv, NEW c \in cores, NEW how \in {"stopped", "failed"},
         EndLoop(c, how), main' = main \/ main' = "panicked",
         UNCHANGED <<server, cores, core>>
  PROVE  LoopInv'
<1>1. /\ loop' = [loop EXCEPT ![c] = how]
      /\ \A k \in Clients : conn'[k] \in ConnStates
      /\ \A k \in Clients : core[k] # c => conn'[k] = conn[k]
      /\ \A k \in Clients : core[k] = c /\ server \in OwnRuntime
           => conn'[k] \in {"none", "done"}
      /\ DOMAIN conn' = Clients /\ conn' = [k \in Clients |-> conn'[k]]
  BY DEF EndLoop, LoopInv, LoopTypeOK, ConnStates
<1>2. Clients' = Clients
  BY <1>1 DEF Clients
<1>3. LoopTypeOK'
  BY <1>1, <1>2 DEF LoopInv, LoopTypeOK, LoopStates, MainStates
<1>4. \A d \in cores : Ended(d) => Ended(d)'
  BY <1>1 DEF Ended, LoopInv, LoopTypeOK
<1>5. MainKnows'
  BY <1>3, <1>4 DEF LoopInv, LoopTypeOK, MainKnows
<1>6. EndTogether'
  <2>1. ASSUME NEW k \in Clients, server \in OwnRuntime, core[k] # c
        PROVE  conn'[k] \in {"none", "done"} \/ ~Ended(core[k])'
    BY <1>1, <2>1 DEF Ended, LoopInv, LoopTypeOK, EndTogether
  <2> QED BY <1>1, <1>2, <2>1 DEF EndTogether
<1> QED BY <1>3, <1>5, <1>6 DEF LoopInv

\* A loop that has not ended goes on to a state that is not an end, and
\* connections of other states than "none" and "done" are on such loops.
LEMMA LoopGoesOn ==
  ASSUME LoopInv, NEW c \in cores, NEW s \in LoopStates, ~Ended(c),
         s \notin {"stopped", "failed"},
         loop' = [loop EXCEPT ![c] = s], main' = main,
         UNCHANGED <<server, cores, core>>,
         \/ UNCHANGED conn
         \/ \E k \in Clients : /\ conn[k] = "queued"
                               /\ conn' = [conn EXCEPT ![k] = "open"]
  PROVE  LoopInv'
<1>1. Clients' = Clients
  BY DEF Clients, LoopInv, LoopTypeOK
<1>2. LoopTypeOK'
  BY <1>1 DEF LoopInv, LoopTypeOK, ConnStates
<1>3. \A d \in cores : Ended(d)' <=> Ended(d)
  BY DEF Ended, LoopInv, LoopTypeOK
<1>4. MainKnows'
  BY <1>3 DEF LoopInv, LoopTypeOK, MainKnows
<1>5. EndTogether'
  BY <1>1, <1>3 DEF LoopInv, LoopTypeOK, EndTogether
<1> QED BY <1>2, <1>4, <1>5 DEF LoopInv

\* Nothing the invariant is about changes but main.
LEMMA MainGoesOn ==
  ASSUME LoopInv, main' \in MainStates, MainKnows',
         UNCHANGED <<server, cores, loop, conn, core>>
  PROVE  LoopInv'
<1>1. LoopTypeOK' /\ EndTogether'
  BY DEF LoopInv, LoopTypeOK, EndTogether, Clients, Ended
<1> QED BY <1>1 DEF LoopInv

\* A round of a server's select! keeps the invariant.
LEMMA SelectLoopStep ==
  ASSUME LoopInv, NEW c \in cores, SelectLoop(c)
  PROVE  LoopInv'
<1>1. CASE SelectAccept(c)
  <2>1. PICK k \in Queued(c) : conn' = [conn EXCEPT ![k] = "open"]
    BY <1>1 DEF SelectAccept, Accepted
  <2> QED
    BY <1>1, <2>1, ConnStep DEF SelectAccept, Queued, ConnStates
<1>2. CASE SelectStop(c)
  BY <1>2, EndLoopStep DEF SelectStop
<1> QED BY <1>1, <1>2 DEF SelectLoop

\* A round of tokio's accept loop keeps the invariant.
LEMMA TokioSelectStep ==
  ASSUME LoopInv, TokioSelect
  PROVE  LoopInv'
<1>0. 0 \in cores
  BY DEF LoopInv, LoopTypeOK
<1>1. CASE UNCHANGED <<loop, conn>>
  BY <1>1 DEF TokioSelect, LoopInv, LoopTypeOK, MainKnows, EndTogether, Clients,
              Ended
<1>2. CASE Accepted(0) /\ UNCHANGED loop
  <2>1. PICK k \in Queued(0) : conn' = [conn EXCEPT ![k] = "open"]
    BY <1>2 DEF Accepted
  <2> QED
    BY <1>2, <2>1, ConnStep DEF TokioSelect, Queued, ConnStates
<1>3. CASE EndLoop(0, "stopped")
  BY <1>0, <1>3, EndLoopStep DEF TokioSelect
<1> QED BY <1>1, <1>2, <1>3 DEF TokioSelect

\* A round of a kimojio core keeps the invariant.
LEMMA KimojioStep ==
  ASSUME LoopInv, NEW c \in cores, KimojioLoop(c)
  PROVE  LoopInv'
<1>1. ASSUME NEW how \in {"stopped", "failed"}, EndLoop(c, how) PROVE LoopInv'
  BY <1>1, EndLoopStep DEF KimojioLoop
<1>2. CASE loop[c] = "check" /\ loop' = [loop EXCEPT ![c] = "accept"]
           /\ UNCHANGED conn
  BY <1>2, LoopGoesOn DEF KimojioLoop, Ended, LoopStates
<1>3. CASE loop[c] = "accept" /\ Accepted(c)
           /\ loop' = [loop EXCEPT ![c] = "check"]
  BY <1>3, LoopGoesOn DEF KimojioLoop, Ended, LoopStates, Accepted, Queued
<1> QED BY <1>1, <1>2, <1>3 DEF KimojioLoop

\* Joining the threads and returning keep the invariant.
LEMMA MainStepInv == ASSUME LoopInv, MainStep PROVE LoopInv'
<1>0. 0 \in cores
  BY DEF LoopInv, LoopTypeOK
<1>1. CASE Spawned /\ server = "kimojio"
  <2>1. main' = "joining" /\ UNCHANGED <<server, cores, loop, conn, core>>
    BY <1>1 DEF Spawned
  <2>2. MainKnows'
    BY <1>1, <2>1 DEF MainKnows, LoopInv, OneLoop
  <2> QED BY <2>1, <2>2, MainGoesOn DEF MainStates
<1>2. CASE Spawned /\ server # "kimojio"
  <2>1. /\ main = "spawning" /\ main' = "serving"
        /\ loop' = [loop EXCEPT ![0] = "binding"]
        /\ UNCHANGED <<server, cores, conn, core>>
    BY <1>2 DEF Spawned
  <2>2. LoopTypeOK'
    BY <1>0, <2>1 DEF LoopInv, LoopTypeOK, LoopStates, MainStates, Clients
  <2>3. MainKnows'
    BY <2>1 DEF LoopInv, MainKnows
  <2>4. \A c \in cores : Ended(c)' => Ended(c)
    BY <1>0, <2>1 DEF LoopInv, LoopTypeOK, Ended
  <2>5. EndTogether'
    BY <2>1, <2>4 DEF LoopInv, LoopTypeOK, EndTogether, Clients
  <2> QED BY <2>2, <2>3, <2>5 DEF LoopInv
<1>3. CASE TokioBind
  BY <1>0, <1>3, LoopGoesOn DEF TokioBind, Ended, LoopStates
<1>4. CASE CoreZeroEnded
  <2>1. MainKnows'
    BY <1>4 DEF CoreZeroEnded, LoopInv, MainKnows, Ended
  <2>2. main' \in MainStates
    BY <1>4 DEF CoreZeroEnded, MainStates
  <2> QED BY <1>4, <2>1, <2>2, MainGoesOn DEF CoreZeroEnded
<1>5. CASE Join
  <2>1. \A c \in cores : Ended(c)
    BY <1>5 DEF Join, Workers, LoopInv, MainKnows
  <2>2. MainKnows'
    BY <1>5, <2>1 DEF Join, LoopInv, MainKnows, Ended
  <2> QED BY <1>5, <2>2, MainGoesOn DEF Join, MainStates
<1> QED BY <1>1, <1>2, <1>3, <1>4, <1>5 DEF MainStep

\* Every step of the loops keeps the invariant.
LEMMA LoopNextInv == ASSUME LoopInv, LoopNext PROVE LoopInv'
<1>0. 0 \in cores
  BY DEF LoopInv, LoopTypeOK
<1>1. CASE MainStep
  BY <1>1, MainStepInv
<1>2. CASE LcoreServer
  BY <1>0, <1>2, SelectLoopStep
  DEF LcoreServer, SimpleHttp1Server, HttpAutoServer, Http1Server, Http2Server,
      EchoServer, AxumServe
<1>3. CASE TokioSelect
  BY <1>3, TokioSelectStep
<1>4. ASSUME NEW c \in cores, CoreStep(c) PROVE LoopInv'
  <2>1. CASE Spawn(c) \/ Bind(c)
    BY <2>1, LoopGoesOn DEF Spawn, Bind, Ended, LoopStates
  <2>2. CASE RunAcceptLoop(c)
    BY <2>2, SelectLoopStep DEF RunAcceptLoop
  <2>3. CASE KimojioLoop(c)
    BY <2>3, KimojioStep
  <2> QED BY <1>4, <2>1, <2>2, <2>3 DEF CoreStep
<1>5. CASE CtrlC
  BY <1>5 DEF CtrlC, LoopInv, LoopTypeOK, MainKnows, EndTogether, Clients, Ended
<1>6. CASE LocalSetDropped
  <2>1. /\ Clients' = Clients /\ \A k \in Clients : conn'[k] \in {"none", "done"}
        /\ conn' = [k \in Clients |-> conn'[k]]
        /\ UNCHANGED <<server, cores, main, loop, core>>
    BY <1>6 DEF LocalSetDropped, Clients
  <2> QED
    BY <2>1 DEF LoopInv, LoopTypeOK, MainKnows, EndTogether, Ended, ConnStates
<1>7. ASSUME NEW c \in cores, BindFails(c) PROVE LoopInv'
  BY <1>7, EndLoopStep DEF BindFails
<1>8. ASSUME NEW c \in cores, NEW k \in Clients, Connect(k, c) PROVE LoopInv'
  <2>1. /\ conn' = [conn EXCEPT ![k] = "queued"] /\ core' = [core EXCEPT ![k] = c]
        /\ ~Ended(c) /\ UNCHANGED <<server, cores, main, loop>>
    BY <1>8 DEF Connect, Ended
  <2>2. Clients' = Clients
    BY <2>1 DEF Clients, LoopInv, LoopTypeOK
  <2>3. LoopTypeOK'
    BY <2>1, <2>2 DEF LoopInv, LoopTypeOK, ConnStates
  <2>4. MainKnows'
    BY <2>1 DEF LoopInv, MainKnows, Ended
  <2>5. EndTogether'
    BY <2>1, <2>2 DEF LoopInv, LoopTypeOK, EndTogether, Ended
  <2> QED BY <2>3, <2>4, <2>5 DEF LoopInv
<1>9. ASSUME NEW k \in Clients, HyperServe(k) \/ with_collected_body(k)
      PROVE  LoopInv'
  <2>1. PICK s \in {"open", "collecting", "done"} : SetConn(k, s)
    BY <1>9 DEF HyperServe, with_collected_body
  <2>2. conn[k] \notin {"none", "done"}
    BY <1>9 DEF HyperServe, with_collected_body
  <2> QED BY <2>1, <2>2, ConnStep DEF SetConn, ConnStates
<1> QED
  BY <1>1, <1>2, <1>3, <1>4, <1>5, <1>6, <1>7, <1>8, <1>9 DEF LoopNext, LoopStep

\* Every step of the server, the watched connection's too, keeps it.
LEMMA NextLoopInv == ASSUME LoopInv, [Next]_vars PROVE LoopInv'
<1>1. CASE Serve
  <2>1. PICK s \in ConnStates :
          /\ conn' = [conn EXCEPT ![Watched] = s]
          /\ s = "done" \/ s = conn[Watched]
    BY <1>1 DEF Serve, LoopInv, LoopTypeOK, ConnStates
  <2>2. conn[Watched] = "open" /\ Watched \in Clients
    BY <1>1 DEF Serve, Serving, LoopInv, LoopTypeOK
  <2> QED BY <1>1, <2>1, <2>2, ConnStep DEF Serve
<1>2. CASE Loop(LoopNext)
  BY <1>2, LoopNextInv DEF Loop
<1>3. ASSUME NEW k \in Clients, OtherDone(k) PROVE LoopInv'
  BY <1>3, ConnStep DEF OtherDone, SetConn, ConnStates
<1>4. CASE UNCHANGED vars
  BY <1>4 DEF vars, loopVars, LoopInv, LoopTypeOK, MainKnows, EndTogether,
              Clients, Ended
<1> QED BY <1>1, <1>2, <1>3, <1>4 DEF Next

\* Whatever order workers start, fail to bind, serve and stop in, the call of
\* a server returns after all its loops have ended, and a server with runtimes
\* of its own after all its connections have (tokio_server.rs:182-188,
\* kimojio_server.rs:704-709): for every number of cores and connections.
THEOREM ServerReturnsLast == Spec => []ReturnsLast
<1>1. Init => LoopInv BY InitLoopInv
<1>2. LoopInv /\ [Next]_vars => LoopInv' BY NextLoopInv
<1>3. LoopInv => ReturnsLast
  <2> SUFFICES ASSUME LoopInv, main = "returned" PROVE ReturnsLast
    BY DEF ReturnsLast
  <2>1. \A c \in cores : Ended(c)
    BY DEF LoopInv, MainKnows
  <2>2. \A k \in Clients : core[k] \in cores
    BY DEF LoopInv, LoopTypeOK
  <2> QED BY <2>1, <2>2 DEF LoopInv, EndTogether, ReturnsLast
<1> QED BY <1>1, <1>2, <1>3, PTL DEF Spec

\* Once stopped, a server whose loops select! has been started completely, and
\* each of its loops binds, has ended or is in a select!, which sees the token: no
\* core is left out whose thread main would then wait for for ever.  For the
\* servers of which StopReturns is stated.
StopMovesOn ==
  server \notin {"tokio", "kimojio"} =>
    /\ stop => main # "spawning"
    /\ main \in {"serving", "joining"} =>
         \A c \in cores : loop[c] \in {"binding", "select"} \/ Ended(c)

\* With the cores that are still to be spawned.
Selecting ==
  server \notin {"tokio", "kimojio"} =>
    /\ stop => main # "spawning"
    /\ main = "spawning" => server = "tokio_cores"
    /\ \A c \in cores : \/ loop[c] \in {"binding", "select"} \/ Ended(c)
                        \/ main = "spawning" /\ loop[c] = "off"

\* A loop of these servers goes on to another state of them.
LEMMA SelectingLoop ==
  ASSUME LoopInv, Selecting, NEW c \in cores, NEW s \in {"binding", "select", "stopped", "failed"},
         loop' = [loop EXCEPT ![c] = s], main' = main \/ main' = "panicked",
         UNCHANGED <<server, cores, stop>>, main # "spawning" \/ main' = main
  PROVE  Selecting'
<1>1. SUFFICES ASSUME server \notin {"tokio", "kimojio"} PROVE Selecting'
  BY DEF Selecting
<1>2. loop \in [cores -> LoopStates]
  BY DEF LoopInv, LoopTypeOK
<1>3. ASSUME NEW d \in cores
      PROVE  \/ loop'[d] \in {"binding", "select", "stopped", "failed"}
             \/ main' = "spawning" /\ loop'[d] = "off"
  <2>1. CASE d = c
    BY <1>2, <2>1
  <2>2. CASE d # c
    BY <1>1, <1>2, <2>2 DEF Selecting, Ended
  <2> QED BY <2>1, <2>2
<1>4. (stop' => main' # "spawning") /\ (main' = "spawning" => server' = "tokio_cores")
  BY <1>1 DEF Selecting
<1> QED BY <1>1, <1>3, <1>4 DEF Selecting, Ended

\* Every step of a server keeps it.
LEMMA SelectingNext == ASSUME LoopInv, Selecting, LoopNext PROVE Selecting'
<1>0. ASSUME UNCHANGED <<server, cores, main, loop, stop>> PROVE Selecting'
  BY <1>0 DEF Selecting, Ended
<1>c. 0 \in cores /\ loop \in [cores -> LoopStates]
  BY DEF LoopInv, LoopTypeOK
<1>e. ASSUME NEW c \in cores, NEW how \in {"stopped", "failed"}, EndLoop(c, how),
             main' = main \/ (main # "spawning" /\ main' = "panicked"), UNCHANGED <<server, cores, stop>>
      PROVE  Selecting'
  BY <1>e, SelectingLoop DEF EndLoop
<1>s. ASSUME NEW c \in cores, SelectLoop(c) PROVE Selecting'
  BY <1>0, <1>e, <1>s DEF SelectLoop, SelectAccept, SelectStop
<1>1. CASE MainStep
  <2>1. CASE Spawned
    <3>1. SUFFICES ASSUME server \notin {"tokio", "kimojio"} PROVE Selecting'
      BY <2>1 DEF Selecting, Spawned
    <3>2. /\ main = "spawning" /\ main' = "serving" /\ loop' = [loop EXCEPT ![0] = "binding"]
          /\ UNCHANGED <<server, cores, stop>> /\ \A c \in cores \ {0} : loop[c] # "off"
      BY <2>1, <3>1 DEF Spawned, Workers
    <3>3. ASSUME NEW c \in cores PROVE loop'[c] \in {"binding", "select", "stopped", "failed"}
      <4>1. CASE c = 0
        BY <1>c, <3>2, <4>1
      <4>2. CASE c # 0
        BY <1>c, <3>1, <3>2, <4>2 DEF Selecting, Ended
      <4> QED BY <4>1, <4>2
    <3> QED BY <3>1, <3>2, <3>3 DEF Selecting, Ended
  <2>2. CASE TokioBind
    BY <2>2 DEF TokioBind, Selecting
  <2>3. CASE CoreZeroEnded \/ Join
    BY <2>3 DEF CoreZeroEnded, Join, Selecting, Ended
  <2> QED BY <1>1, <2>1, <2>2, <2>3 DEF MainStep
<1>2. CASE LcoreServer
  BY <1>c, <1>s, <1>2
  DEF LcoreServer, SimpleHttp1Server, HttpAutoServer, Http1Server, Http2Server, EchoServer, AxumServe
<1>3. CASE TokioSelect
  BY <1>3 DEF TokioSelect, Selecting
<1>4. ASSUME NEW c \in cores, CoreStep(c) PROVE Selecting'
  <2>1. CASE Spawn(c)
    BY <2>1, SelectingLoop DEF Spawn
  <2>2. CASE Bind(c)
    <3>1. CASE server = "kimojio"
      BY <2>2, <3>1 DEF Bind, Selecting
    <3>2. CASE server # "kimojio"
      BY <2>2, <3>2, SelectingLoop DEF Bind
    <3> QED BY <3>1, <3>2
  <2>3. CASE RunAcceptLoop(c)
    BY <1>s, <2>3 DEF RunAcceptLoop
  <2>4. CASE KimojioLoop(c)
    BY <2>4 DEF KimojioLoop, Selecting
  <2> QED BY <1>4, <2>1, <2>2, <2>3, <2>4 DEF CoreStep
<1>5. CASE CtrlC
  BY <1>5 DEF CtrlC, Selecting, Ended
<1>6. CASE LocalSetDropped
  BY <1>0, <1>6 DEF LocalSetDropped
<1>7. ASSUME NEW c \in cores, BindFails(c) PROVE Selecting'
  BY <1>e, <1>7 DEF BindFails
<1>8. ASSUME NEW c \in cores, NEW k \in Clients, Connect(k, c) PROVE Selecting'
  BY <1>0, <1>8 DEF Connect
<1>9. ASSUME NEW k \in Clients, HyperServe(k) \/ with_collected_body(k) PROVE Selecting'
  BY <1>0, <1>9 DEF HyperServe, with_collected_body, SetConn
<1> QED
  BY <1>1, <1>2, <1>3, <1>4, <1>5, <1>6, <1>7, <1>8, <1>9 DEF LoopNext, LoopStep

\* When a server is stopped, no loop of it is out of the token's reach: all threads
\* main will join were spawned before the signal could be heard, and each is in a
\* state that ends or sees the token (tokio_server.rs:150-188).  It is the safety
\* half of StopReturns, for every number of cores and connections.
THEOREM StopReachesEveryLoop == Spec => []StopMovesOn
<1>1. Init => Selecting
  <2>1. SUFFICES ASSUME Init PROVE Selecting
    OBVIOUS
  <2>2. PICK i \in Instances : InitLoop(i.server, i.cores, i.conns)
    BY <2>1 DEF Init
  <2>3. i.server \in Servers
    BY InstancesAssumption
  <2> QED BY <2>2, <2>3 DEF InitLoop, Selecting, Servers, OneLoop
<1>2. LoopInv /\ Selecting /\ [Next]_vars => Selecting'
  <2>1. SUFFICES ASSUME LoopInv, Selecting, [Next]_vars PROVE Selecting'
    OBVIOUS
  <2>2. CASE Loop(LoopNext)
    BY <2>1, <2>2, SelectingNext DEF Loop
  <2>3. CASE Serve \/ (\E k \in Clients : OtherDone(k)) \/ UNCHANGED vars
    BY <2>1, <2>3 DEF Serve, OtherDone, SetConn, vars, loopVars, Selecting, Ended
  <2> QED BY <2>1, <2>2, <2>3 DEF Next
<1>3. Selecting => StopMovesOn
  BY DEF Selecting, StopMovesOn
<1> QED BY <1>1, <1>2, <1>3, InitLoopInv, NextLoopInv, PTL DEF Spec

-----------------------------------------------------------------------------
(* The answers of the watched connection.                                  *)

\* The units of the requests with numbers in I.
UnitsOf(I) ==
  {"bad", "head", "end", "nl", "size", "junk", "data", "trailer"} \X I \X Nat

\* What Data, Encode and Payload make are sequences of units.
LEMMA DataType ==
  ASSUME NEW I, NEW i \in I, NEW c \in Nat, NEW m \in Nat
  PROVE  Data(i, c, m) \in Seq(UnitsOf(I))
<1>1. \A k \in 1 .. m : 10 * c + k \in Nat
  OBVIOUS
<1>2. \A k \in 1 .. m : Unit("data", i, 10 * c + k) \in UnitsOf(I)
  BY <1>1 DEF Unit, UnitsOf
<1> QED BY <1>2 DEF Data

\* A request is sent, and its body consists, of units with its number.
LEMMA EncodeType ==
  ASSUME NEW I, NEW i \in I, NEW r \in Requests
  PROVE  Encode(r, i) \in Seq(UnitsOf(I)) /\ Payload(r, i) \in Seq(UnitsOf(I))
<1> DEFINE U == UnitsOf(I)
<1>r. /\ r.head \in Nat \ {0} /\ r.chunks \in Seq(Nat) /\ r.trailers \in Nat
      /\ Len(r.chunks) \in Nat /\ \A c \in 1 .. Len(r.chunks) : r.chunks[c] \in Nat
  BY DEF Requests
<1>u. \A k \in Nat : /\ Unit("bad", i, k) \in U /\ Unit("end", i, k) \in U /\ Unit("head", i, k) \in U
                     /\ Unit("nl", i, k) \in U /\ Unit("junk", i, k) \in U
                     /\ Unit("size", i, k) \in U /\ Unit("trailer", i, k) \in U
  BY DEF Unit, UnitsOf
<1> HIDE DEF U
<1>s. ASSUME NEW x \in U PROVE <<x>> \in Seq(U)
  BY <1>s
<1>l. ASSUME NEW x \in U PROVE LineOf(x, i) \in Seq(U)
  BY <1>u DEF LineOf
<1>1. Payload(r, i) \in Seq(U)
  <2>1. \A c \in 1 .. Len(r.chunks) : Data(i, c, r.chunks[c]) \in Seq(U)
    <3>1. \A c \in 1 .. Len(r.chunks) : c \in Nat /\ r.chunks[c] \in Nat
      BY <1>r
    <3> QED BY <3>1, DataType DEF U
  <2>2. [c \in 1 .. Len(r.chunks) |-> Data(i, c, r.chunks[c])] \in Seq(Seq(U))
    BY <1>r, <2>1
  <2> QED BY <2>2, FlattenType DEF Payload
<1>2. HeadUnits(r, i) \in Seq(U)
  <2>1. <<Unit("bad", i, 1)>> \in Seq(U)
    BY <1>u, <1>s
  <2>2. \A k \in 1 .. r.head : Unit(IF k = r.head THEN "end" ELSE "head", i, k) \in U
    BY <1>r, <1>u
  <2>3. [k \in 1 .. r.head |-> Unit(IF k = r.head THEN "end" ELSE "head", i, k)] \in Seq(U)
    BY <1>r, <2>2
  <2> QED BY <2>1, <2>3 DEF HeadUnits
<1>3. ChunkedUnits(r, i) \in Seq(U)
  <2> DEFINE Size(c) == LineOf(IF r.bad = "size" THEN Unit("junk", i, 0)
                               ELSE Unit("size", i, r.chunks[c]), i)
             Piece(c) == Size(c) \o Data(i, c, r.chunks[c]) \o <<Unit("nl", i, 0)>>
  <2>1. ASSUME NEW c \in 1 .. Len(r.chunks) PROVE Piece(c) \in Seq(U)
    <3>1. Size(c) \in Seq(U)
      BY <1>r, <1>u, <1>l
    <3>2. Data(i, c, r.chunks[c]) \in Seq(U)
      <4>1. c \in Nat /\ r.chunks[c] \in Nat
        BY <1>r
      <4> QED BY <4>1, DataType DEF U
    <3>3. <<Unit("nl", i, 0)>> \in Seq(U)
      BY <1>u, <1>s
    <3> HIDE DEF Size
    <3> QED BY <3>1, <3>2, <3>3
  <2>2. [c \in 1 .. Len(r.chunks) |-> Piece(c)] \in Seq(Seq(U))
    <3> HIDE DEF Piece
    <3> QED BY <1>r, <2>1
  <2>3. FlattenSeq([c \in 1 .. Len(r.chunks) |-> Piece(c)]) \in Seq(U)
    BY <2>2, FlattenType
  <2>4. ASSUME NEW t \in 1 .. r.trailers PROVE LineOf(Unit("trailer", i, t), i) \in Seq(U)
    BY <1>r, <1>u, <1>l
  <2>5. [t \in 1 .. r.trailers |-> LineOf(Unit("trailer", i, t), i)] \in Seq(Seq(U))
    BY <1>r, <2>4
  <2>6. FlattenSeq([t \in 1 .. r.trailers |-> LineOf(Unit("trailer", i, t), i)]) \in Seq(U)
    BY <2>5, FlattenType
  <2>7. LineOf(Unit("size", i, 0), i) \in Seq(U) /\ <<Unit("nl", i, 0)>> \in Seq(U)
    BY <1>u, <1>s, <1>l
  <2>8. ChunkedUnits(r, i) = FlattenSeq([c \in 1 .. Len(r.chunks) |-> Piece(c)])
             \o LineOf(Unit("size", i, 0), i)
             \o FlattenSeq([t \in 1 .. r.trailers |-> LineOf(Unit("trailer", i, t), i)])
             \o <<Unit("nl", i, 0)>>
    BY DEF ChunkedUnits
  <2> HIDE DEF Piece
  <2> QED BY <2>3, <2>6, <2>7, <2>8
<1>4. Encode(r, i) \in Seq(U)
  BY <1>1, <1>2, <1>3 DEF Encode
<1> QED BY <1>1, <1>4 DEF U

\* So is what the client sends.
LEMMA WireType ==
  ASSUME NEW s \in Seq(Requests)
  PROVE  FlattenSeq([i \in 1 .. Len(s) |-> Encode(s[i], i)]) \in Seq(UnitsOf(1 .. Len(s)))
<1>1. Len(s) \in Nat /\ \A i \in 1 .. Len(s) : s[i] \in Requests
  OBVIOUS
<1>2. \A i \in 1 .. Len(s) : Encode(s[i], i) \in Seq(UnitsOf(1 .. Len(s)))
  BY <1>1, EncodeType
<1>3. [i \in 1 .. Len(s) |-> Encode(s[i], i)] \in Seq(Seq(UnitsOf(1 .. Len(s))))
  BY <1>1, <1>2
<1> QED BY <1>3, FlattenType

\* A part of a sequence from its beginning, and the rest.
LEMMA Cuts ==
  ASSUME NEW U, NEW s \in Seq(U), NEW n \in 0 .. Len(s)
  PROVE  Take(s, n) \in Seq(U) /\ Len(Take(s, n)) = n /\ Drop(s, n) \in Seq(U)
  BY DEF Take, Drop

\* The units of this connection, and the stages before a request is handled.
Units == UnitsOf(1 .. Len(script))

Parsing == {"headers", "size", "fixed", "chunk", "crlf", "last", "handle", "bad_request"}

\* The types of the connection's state.
ConnType ==
  /\ script \in Seq(Requests) /\ cap \in Nat /\ need \in Nat /\ cur \in Nat
  /\ wire \in Seq(Units) /\ buf \in Seq(Units) /\ body \in Seq(Units) /\ line \in Seq(Units)
  /\ handled \in Seq([request : Nat, body : Seq(Units)])
  /\ responses \in Seq([status : {200, 400}, body : Seq(Units), close : BOOLEAN])
  /\ stage \in IF impl = "echo" THEN {"recv", "send", "closed"}
               ELSE Parsing \cup {"write", "closed"}

\* Where the handler and the response stand towards each other.
Turns ==
  /\ stage \in Parsing \cup {"recv"} => Len(responses) = Len(handled)
  /\ stage \in {"write", "send"} =>
       /\ Len(handled) = Len(responses) + 1
       /\ handled[Len(handled)].body = IF stage = "write" THEN body ELSE buf
  /\ Len(responses) <= Len(handled) + 1

\* An answer is that of the request with its number.
Matches ==
  \A k \in 1 .. Len(responses) : responses[k].status = 200 =>
    /\ k <= Len(handled)
    /\ IF impl = "echo" THEN IsPrefix(responses[k].body, handled[k].body)
       ELSE responses[k].body = handled[k].body

\* An answer that closes is the last.
Closing ==
  \A k \in 1 .. Len(responses) : responses[k].close =>
    k = Len(responses) /\ k >= Len(handled) /\ stage = "closed"

\* Where SelectInSeq finds something.
LEMMA FirstOf ==
  ASSUME NEW U, NEW s \in Seq(U), NEW I \in SUBSET (1 .. Len(s))
  PROVE  (IF I # {} THEN Min(I) ELSE 0) \in 0 .. Len(s)
<1>1. I \subseteq Nat /\ Len(s) \in Nat
  OBVIOUS
<1>2. I # {} => Min(I) \in I
  BY <1>1, LeastOf
<1>3. I # {} => Min(I) \in 1 .. Len(s)
  BY <1>2
<1> QED BY <1>1, <1>3

\* Reads bring units of the stream, no more than are there.
LEMMA ArrivedBound ==
  ASSUME ConnType
  PROVE  Arrived \in Nat /\ Arrived <= Len(wire)
<1> DEFINE I == {i \in 1 .. Len(wire) : wire[i][2] > Len(responses) + 1}
           later == IF I # {} THEN Min(I) ELSE 0
<1>1. wire \in Seq(Units) /\ Len(wire) \in Nat
  BY DEF ConnType
<1>2. later \in 0 .. Len(wire)
  <2>1. I \in SUBSET (1 .. Len(wire))
    OBVIOUS
  <2> HIDE DEF I
  <2> QED BY <1>1, <2>1, FirstOf
<1>3. Arrived = IF client = "pipelines" THEN Len(wire)
                ELSE IF later = 0 THEN Len(wire) ELSE later - 1
  BY DEF Arrived, SelectInSeq
<1> HIDE DEF later
<1> QED BY <1>1, <1>2, <1>3

\* A read takes at least one unit, within the space and the wire.
LEMMA ReadType ==
  ASSUME ConnType, NEW space \in Int, NEW n \in ReadCounts(space)
  PROVE  /\ n \in 1 .. Len(wire) /\ n <= space /\ n \in 0 .. Len(wire)
         /\ Take(wire, n) \in Seq(Units) /\ Drop(wire, n) \in Seq(Units)
<1>1. wire \in Seq(Units) /\ Len(wire) \in Nat
  BY DEF ConnType
<1>2. n \in 0 .. Len(wire) /\ n \in 1 .. Len(wire) /\ n <= space
  <2>1. PICK a \in Nat : a = Arrived /\ a <= Len(wire)
    BY ArrivedBound
  <2>2. n \in 1 .. (IF space < a THEN space ELSE a)
    BY <2>1 DEF ReadCounts, Least
  <2> QED BY <1>1, <2>1, <2>2
<1> QED BY <1>1, <1>2, Cuts

\* A head and a line end in the buffer.
LEMMA ParsedLen ==
  ASSUME ConnType, httparse(buf).status = "complete"
  PROVE  httparse(buf).len \in 1 .. Len(buf)
<1> DEFINE I == {i \in 1 .. Len(buf) : buf[i][1] = "end"}
           e == IF I # {} THEN Min(I) ELSE 0
<1>1. buf \in Seq(Units) /\ Len(buf) \in Nat
  BY DEF ConnType
<1>2. e \in 0 .. Len(buf)
  <2>1. I \in SUBSET (1 .. Len(buf))
    OBVIOUS
  <2> HIDE DEF I
  <2> QED BY <1>1, <2>1, FirstOf
<1>3. EndOfHead(buf) = e
  BY DEF EndOfHead, SelectInSeq
<1> HIDE DEF e
<1>4. EndOfHead(buf) # 0 /\ httparse(buf).len = EndOfHead(buf)
  BY DEF httparse
<1> QED BY <1>1, <1>2, <1>3, <1>4

\* An end of line is found in the buffer or not at all.
LEMMA LineEndType ==
  ASSUME ConnType
  PROVE  LineEnd \in 0 .. Len(buf) /\ Len(buf) \in Nat
<1> DEFINE I == {i \in 1 .. Len(buf) : buf[i][1] = "nl"}
<1>1. buf \in Seq(Units) /\ Len(buf) \in Nat
  BY DEF ConnType
<1>2. I \in SUBSET (1 .. Len(buf)) /\ LineEnd = IF I # {} THEN Min(I) ELSE 0
  BY DEF LineEnd, SelectInSeq
<1> HIDE DEF I
<1> QED BY <1>1, <1>2, FirstOf

-----------------------------------------------------------------------------

\* The connection before its first read.
LEMMA ConnTypeInit == ASSUME Init PROVE ConnType /\ Turns /\ Matches /\ Closing
<1>0. PICK i \in Instances, how \in {"pipelines", "sequential"} :
        \E s \in i.scripts : InitConnection(ImplOf(i.server), how, s)
  BY DEF Init
<1>1. PICK s \in i.scripts : InitConnection(ImplOf(i.server), how, s)
  BY <1>0
<1>2. s \in Seq(Requests)
  BY InstancesAssumption
<1>3. wire \in Seq(UnitsOf(1 .. Len(s))) /\ script = s
  BY <1>1, <1>2, WireType DEF InitConnection
<1>4. wire \in Seq(Units)
  BY <1>3 DEF Units
<1>5. /\ buf = <<>> /\ body = <<>> /\ line = <<>> /\ handled = <<>> /\ responses = <<>>
      /\ cap \in Nat /\ need = 0 /\ cur = 0
      /\ stage = IF impl = "echo" THEN "recv" ELSE "headers"
  BY <1>1, BufAssumption DEF InitConnection
<1>6. Len(responses) = 0 /\ Len(handled) = 0
  BY <1>5
<1>7. ConnType
  BY <1>2, <1>3, <1>4, <1>5 DEF ConnType, Parsing
<1>8. Turns
  BY <1>5, <1>6 DEF Turns
<1>9. Matches /\ Closing
  BY <1>6 DEF Matches, Closing
<1> QED BY <1>7, <1>8, <1>9

\* The parser's steps: nothing is handled or answered.
Quietly ==
  /\ stage \in Parsing /\ stage' \in Parsing \cup {"closed"}
  /\ UNCHANGED <<impl, script, handled, responses>>

\* parse_request ends the connection, or reads on.
LEMMA ClosedType ==
  ASSUME ConnType, stage \in Parsing, impl # "echo", Closed
  PROVE  ConnType' /\ Quietly
  BY DEF ConnType, Units, Closed, Parsing, clientVars, resultVars, Quietly

\* An error of the parser leaves what was handled and answered alone.
LEMMA FailType ==
  ASSUME ConnType, stage \in Parsing, impl # "echo", NEW e, Fail(e)
  PROVE  ConnType' /\ Quietly
  BY DEF ConnType, Units, Fail, Parsing, clientVars, Quietly

\* Reading a head (parse_headers, read_more) keeps the types.
LEMMA ParseType ==
  ASSUME ConnType, impl # "echo", ParseHeaders \/ ParseRefused \/ ReadMore \/ ReadFails
  PROVE  ConnType' /\ Quietly
<1>t. /\ script \in Seq(Requests) /\ cap \in Nat /\ wire \in Seq(Units) /\ buf \in Seq(Units)
      /\ Len(buf) \in Nat
  BY DEF ConnType
<1>1. CASE ParseHeaders
  <2>1. PICK l \in 1 .. Len(buf) : l = httparse(buf).len
    BY <1>1, ParsedLen DEF ParseHeaders
  <2>a. buf[l] \in Units
    BY <1>t, <2>1
  <2>2. PICK i \in 1 .. Len(script) : i = buf[l][2]
    BY <2>a DEF Units, UnitsOf
  <2>3. PICK r \in Requests : r = script[i]
    BY <1>t
  <2>4. /\ stage = "headers" /\ buf' = Drop(buf, l) /\ cur' = i /\ body' = <<>> /\ line' = <<>>
        /\ need' \in {0, r.length} /\ (need' = 0 \/ r.length # NoLength)
        /\ stage' \in {"size", "fixed", "handle"}
        /\ UNCHANGED <<clientVars, cap, resultVars>>
    BY <1>1, <2>1, <2>2, <2>3 DEF ParseHeaders, get_content_length, is_chunked
  <2>5. need' \in Nat /\ cur' \in Nat
    BY <2>4, <1>t DEF Requests
  <2>6. Drop(buf, l) \in Seq(Units) /\ <<>> \in Seq(Units)
    BY <1>t, <2>1, Cuts
  <2> QED BY <2>4, <2>5, <2>6 DEF ConnType, Units, Parsing, clientVars, resultVars, Quietly
<1>2. CASE ParseRefused
  <2>1. stage \in Parsing /\ Fail("parse")
    BY <1>2 DEF ParseRefused, Parsing
  <2> QED BY <2>1, FailType
<1>3. CASE ReadMore
  <2>1. stage = "headers" /\ stage \in Parsing
    BY <1>3 DEF ReadMore, Parsing
  <2>2. CASE Fail("too_large")
    BY <2>1, <2>2, FailType
  <2>3. CASE Closed
    BY <2>1, <2>3, ClosedType
  <2>4. CASE /\ \E n \in ReadCounts(Grown - Len(buf)) :
                   buf' = buf \o Take(wire, n) /\ wire' = Drop(wire, n)
             /\ cap' = Grown
             /\ UNCHANGED <<impl, client, script, eof, broken, stage, cur, body, line, need,
                            resultVars>>
    <3>1. Grown \in Nat /\ Grown - Len(buf) \in Int
      BY <1>t DEF Grown
    <3>2. PICK n \in ReadCounts(Grown - Len(buf)) : buf' = buf \o Take(wire, n) /\ wire' = Drop(wire, n)
      BY <2>4
    <3>3. Take(wire, n) \in Seq(Units) /\ wire' \in Seq(Units)
      BY <3>1, <3>2, ReadType
    <3>4. buf' \in Seq(Units)
      BY <1>t, <3>2, <3>3
    <3> QED BY <2>1, <2>4, <3>1, <3>3, <3>4 DEF ConnType, Units, Parsing, resultVars, Quietly
  <2> QED BY <1>3, <2>2, <2>3, <2>4 DEF ReadMore
<1>4. CASE ReadFails
  <2>1. stage \in Parsing /\ Fail("io")
    BY <1>4 DEF ReadFails, Reading, Parsing
  <2> QED BY <2>1, FailType
<1> QED BY <1>1, <1>2, <1>3, <1>4

\* read_body, with all it calls.
LEMMA BodyType ==
  ASSUME ConnType, impl # "echo", NEW limit \in Nat,
         FromBuffer \/ ReadExact(limit) \/ ExactDone \/ ReadLine
  PROVE  ConnType' /\ Quietly
<1>t. /\ script \in Seq(Requests) /\ cap \in Nat /\ wire \in Seq(Units) /\ buf \in Seq(Units)
      /\ Len(buf) \in Nat /\ need \in Nat /\ body \in Seq(Units) /\ line \in Seq(Units)
  BY DEF ConnType
<1>1. CASE FromBuffer
  <2>1. PICK n \in 0 .. Len(buf) : n = Least(Len(buf), need) /\ n <= need
    BY <1>t DEF Least
  <2>2. /\ stage \in {"fixed", "chunk"} /\ body' = body \o Take(buf, n) /\ buf' = Drop(buf, n)
        /\ need' = need - n /\ UNCHANGED <<clientVars, cap, stage, cur, line, resultVars>>
    BY <1>1, <2>1 DEF FromBuffer
  <2>3. Take(buf, n) \in Seq(Units) /\ Drop(buf, n) \in Seq(Units)
    BY <1>t, Cuts
  <2>4. body' \in Seq(Units) /\ buf' \in Seq(Units) /\ need' \in Nat
    BY <1>t, <2>1, <2>2, <2>3
  <2> QED BY <2>2, <2>4 DEF ConnType, Units, Parsing, clientVars, resultVars, Quietly
<1>2. CASE ReadExact(limit)
  <2>1. stage \in {"fixed", "chunk"} /\ stage \in Parsing
    BY <1>2 DEF ReadExact, Parsing
  <2>2. CASE Closed
    BY <2>1, <2>2, ClosedType
  <2>3. CASE /\ \E n \in ReadCounts(Least(need, limit)) :
                   body' = body \o Take(wire, n) /\ wire' = Drop(wire, n) /\ need' = need - n
             /\ UNCHANGED <<impl, client, script, eof, broken, buf, cap, stage, cur, line,
                            resultVars>>
    <3>1. Least(need, limit) \in Int /\ Least(need, limit) <= need
      BY <1>t DEF Least
    <3>2. PICK n \in ReadCounts(Least(need, limit)) :
             body' = body \o Take(wire, n) /\ wire' = Drop(wire, n) /\ need' = need - n
      BY <2>3
    <3>3. /\ n \in 1 .. Len(wire) /\ n <= Least(need, limit)
          /\ Take(wire, n) \in Seq(Units) /\ wire' \in Seq(Units)
      BY <3>1, <3>2, ReadType
    <3>4. body' \in Seq(Units) /\ need' \in Nat
      BY <1>t, <3>1, <3>2, <3>3
    <3> QED BY <2>1, <2>3, <3>3, <3>4 DEF ConnType, Units, Parsing, resultVars, Quietly
  <2> QED BY <1>2, <2>2, <2>3 DEF ReadExact
<1>3. CASE ExactDone
  BY <1>3 DEF ExactDone, ConnType, Units, Parsing, clientVars, resultVars, Quietly
<1>4. CASE ReadLine
  <2>1. stage \in {"size", "crlf", "last"} /\ stage \in Parsing
    BY <1>4 DEF ReadLine, Parsing
  <2>2. CASE Closed
    BY <2>1, <2>2, ClosedType
  <2>3. CASE /\ \E n \in ReadCounts(cap) :
                   line' = line \o buf /\ buf' = Take(wire, n) /\ wire' = Drop(wire, n)
             /\ UNCHANGED <<impl, client, script, eof, broken, cap, stage, cur, body, need,
                            resultVars>>
    <3>1. PICK n \in ReadCounts(cap) :
             line' = line \o buf /\ buf' = Take(wire, n) /\ wire' = Drop(wire, n)
      BY <2>3
    <3>2. buf' \in Seq(Units) /\ wire' \in Seq(Units)
      BY <1>t, <3>1, ReadType
    <3>3. line' \in Seq(Units)
      BY <1>t, <3>1
    <3> QED BY <2>1, <2>3, <3>2, <3>3 DEF ConnType, Units, Parsing, resultVars, Quietly
  <2>4. CASE /\ LineEnd # 0 /\ ChunkLine(line \o Take(buf, LineEnd - 1))
             /\ buf' = Drop(buf, LineEnd) /\ line' = <<>>
             /\ UNCHANGED <<clientVars, cap, cur, body, handled, responses>>
    <3>1. PICK l \in 1 .. Len(buf) : l = LineEnd
      BY <2>4, LineEndType
    <3>2. Take(buf, l - 1) \in Seq(Units) /\ Drop(buf, l) \in Seq(Units) /\ <<>> \in Seq(Units)
      BY <1>t, <3>1, Cuts
    <3>a. line \o Take(buf, l - 1) \in Seq(Units)
      BY <1>t, <3>2
    <3>b. ChunkLine(line \o Take(buf, l - 1))
      BY <2>4, <3>1
    <3>3. PICK text \in Seq(Units) : ChunkLine(text)
      BY <3>a, <3>b
    <3>4. need' \in Nat /\ stage' \in {"bad_request", "last", "chunk", "size", "handle"}
      <4>1. CASE stage = "size" /\ (Len(text) # 1 \/ text[1][1] # "size")
        BY <1>t, <3>3, <4>1 DEF ChunkLine
      <4>2. CASE stage = "size" /\ Len(text) = 1 /\ text[1][1] = "size"
        <5>1. text[1] \in Units /\ text[1][3] \in Nat
          BY <4>2 DEF Units, UnitsOf
        <5>2. need' = text[1][3] /\ stage' \in {"last", "chunk"}
          BY <3>3, <4>2 DEF ChunkLine
        <5> QED BY <5>1, <5>2
      <4>3. CASE stage = "crlf" \/ stage = "last"
        BY <1>t, <3>3, <4>3 DEF ChunkLine
      <4> QED BY <2>1, <4>1, <4>2, <4>3
    <3> QED BY <2>1, <2>4, <3>1, <3>2, <3>4 DEF ConnType, Units, Parsing, clientVars, Quietly
  <2> QED BY <1>4, <2>2, <2>3, <2>4 DEF ReadLine
<1> QED BY <1>1, <1>2, <1>3, <1>4

\* The inductive invariant: every answer so far is that of its request, and the
\* request in hand is the next to be answered.
Answering == ConnType /\ Turns /\ Matches /\ Closing

\* The parser answers nothing.
LEMMA QuietStep ==
  ASSUME Answering, ConnType', Quietly
  PROVE  Answering'
<1>1. stage # "closed" /\ Len(responses) \in Nat /\ Len(handled) \in Nat
  BY DEF Quietly, Parsing, Answering, ConnType
<1>2. Turns'
  BY <1>1 DEF Quietly, Parsing, Answering, Turns
<1>3. Matches' /\ Closing'
  BY <1>1 DEF Quietly, Answering, Matches, Closing
<1> QED BY <1>2, <1>3 DEF Answering

\* What one more element does to the histories.
LEMMA OneMore ==
  ASSUME NEW U, NEW s \in Seq(U), NEW x \in U
  PROVE  /\ Append(s, x) \in Seq(U) /\ Len(Append(s, x)) = Len(s) + 1 /\ Len(s) \in Nat
         /\ \A k \in 1 .. Len(s) : Append(s, x)[k] = s[k]
         /\ Append(s, x)[Len(s) + 1] = x
  OBVIOUS

\* A request goes to the handler ...
LEMMA GivenToHandler ==
  ASSUME Answering, stage \in Parsing \cup {"recv"}, stage' \in {"write", "send"},
         UNCHANGED <<impl, responses>>, ConnType',
         NEW x \in [request : Nat, body : Seq(Units)], handled' = Append(handled, x),
         x.body = IF stage' = "write" THEN body' ELSE buf'
  PROVE  Answering'
<1>t. handled \in Seq([request : Nat, body : Seq(Units)]) /\ Len(responses) \in Nat
  BY DEF Answering, ConnType
<1>1. /\ Len(handled') = Len(handled) + 1 /\ Len(handled) \in Nat
      /\ \A k \in 1 .. Len(handled) : handled'[k] = handled[k]
      /\ handled'[Len(handled) + 1] = x
  BY <1>t, OneMore
<1>2. Len(responses) = Len(handled) /\ stage # "closed"
  BY DEF Answering, Turns, Parsing
<1>3. Turns'
  BY <1>t, <1>1, <1>2 DEF Turns, Parsing
<1>4. Matches'
  <2>1. SUFFICES ASSUME NEW k \in 1 .. Len(responses), responses[k].status = 200
                 PROVE  /\ k <= Len(handled')
                        /\ IF impl = "echo" THEN IsPrefix(responses[k].body, handled'[k].body)
                           ELSE responses[k].body = handled'[k].body
    BY DEF Matches
  <2>2. k <= Len(handled) /\ handled'[k] = handled[k]
    BY <1>1, <1>2
  <2> QED BY <1>1, <2>1, <2>2 DEF Answering, Matches
<1>5. Closing'
  BY <1>2 DEF Answering, Closing
<1> QED BY <1>3, <1>4, <1>5 DEF Answering

\* ... and its answer to the client.
LEMMA Responded ==
  ASSUME Answering, ConnType', UNCHANGED <<impl, handled>>,
         NEW x \in [status : {200, 400}, body : Seq(Units), close : BOOLEAN],
         responses' = Append(responses, x),
         \/ /\ stage \in {"write", "send"} /\ x.status = 200
            /\ IF impl = "echo" THEN IsPrefix(x.body, handled[Len(handled)].body)
               ELSE x.body = handled[Len(handled)].body
         \/ stage = "bad_request" /\ x.status = 400 /\ stage' = "closed",
         stage' \in {"headers", "recv", "closed"}, x.close => stage' = "closed"
  PROVE  Answering'
<1>t. /\ responses \in Seq([status : {200, 400}, body : Seq(Units), close : BOOLEAN])
      /\ Len(handled) \in Nat
  BY DEF Answering, ConnType
<1>1. /\ Len(responses') = Len(responses) + 1 /\ Len(responses) \in Nat
      /\ \A k \in 1 .. Len(responses) : responses'[k] = responses[k]
      /\ responses'[Len(responses) + 1] = x
      /\ \A k \in 1 .. Len(responses) + 1 : k = Len(responses) + 1 \/ k \in 1 .. Len(responses)
  BY <1>t, OneMore
<1>2. /\ stage # "closed"
      /\ stage \in {"write", "send"} => Len(handled) = Len(responses) + 1
      /\ stage = "bad_request" => Len(handled) = Len(responses)
  BY DEF Answering, Turns, Parsing
<1>3. Turns'
  BY <1>t, <1>1, <1>2 DEF Turns, Parsing
<1>4. Matches'
  <2>1. SUFFICES ASSUME NEW k \in 1 .. Len(responses) + 1, responses'[k].status = 200
                 PROVE  /\ k <= Len(handled)
                        /\ IF impl = "echo" THEN IsPrefix(responses'[k].body, handled[k].body)
                           ELSE responses'[k].body = handled[k].body
    BY <1>1 DEF Matches
  <2>2. CASE k \in 1 .. Len(responses)
    BY <1>1, <2>1, <2>2 DEF Answering, Matches
  <2>3. CASE k = Len(responses) + 1
    <3>1. responses'[k] = x /\ stage # "bad_request"
      BY <1>1, <2>1, <2>3
    <3>2. k = Len(handled)
      BY <1>2, <2>3, <3>1
    <3> QED BY <1>t, <3>1, <3>2
  <2> QED BY <1>1, <2>2, <2>3
<1>5. Closing'
  <2>1. \A k \in 1 .. Len(responses) : ~responses[k].close
    BY <1>2 DEF Answering, Closing
  <2>2. SUFFICES ASSUME NEW k \in 1 .. Len(responses) + 1, responses'[k].close
                 PROVE  k = Len(responses) + 1 /\ k >= Len(handled) /\ stage' = "closed"
    BY <1>1 DEF Closing
  <2>3. k = Len(responses) + 1 /\ responses'[k] = x
    BY <1>1, <2>1, <2>2
  <2> QED BY <1>t, <1>1, <1>2, <2>2, <2>3
<1> QED BY <1>3, <1>4, <1>5 DEF Answering

\* The steps of handle_connection and of the echo server.
LEMMA HandleStep == ASSUME Answering, impl # "echo", Handle PROVE Answering'
<1>1. stage = "handle" /\ stage \in Parsing /\ ConnType
  BY DEF Handle, Parsing, Answering
<1>2. CASE Fail("uri")
  BY <1>1, <1>2, FailType, QuietStep
<1>3. CASE /\ handled' = Append(handled, [request |-> cur, body |-> body])
           /\ stage' = "write"
           /\ UNCHANGED <<clientVars, buf, cap, cur, body, line, need, error, responses>>
  <2> DEFINE x == [request |-> cur, body |-> body]
  <2>1. x \in [request : Nat, body : Seq(Units)] /\ x.body = body
    BY <1>1 DEF ConnType
  <2>2. /\ handled' = Append(handled, x)
        /\ handled \in Seq([request : Nat, body : Seq(Units)])
    BY <1>1, <1>3 DEF ConnType
  <2> HIDE DEF x
  <2>3. handled' \in Seq([request : Nat, body : Seq(Units)])
    BY <2>1, <2>2, OneMore
  <2>4. ConnType'
    BY <1>1, <1>3, <2>3 DEF ConnType, Units, clientVars
  <2> QED BY <1>1, <1>3, <2>1, <2>2, <2>4, GivenToHandler DEF clientVars
<1> QED BY <1>2, <1>3 DEF Handle

\* write_response answers the request in hand, and only it.
LEMMA WriteStep ==
  ASSUME Answering, impl # "echo", NEW left \in Seq(Units), Write(left)
  PROVE  Answering'
<1>1. stage = "write" /\ ConnType
  BY DEF Write, Answering
<1>2. CASE broken
  <2>1. /\ stage' = "closed"
        /\ UNCHANGED <<clientVars, buf, cap, cur, body, line, need, handled, responses>>
    BY <1>2 DEF Write
  <2>2. ConnType' /\ Len(handled) \in Nat /\ Len(responses) \in Nat
    BY <1>1, <2>1 DEF ConnType, Units, clientVars
  <2>3. Turns' /\ Matches' /\ Closing'
    BY <1>1, <2>1, <2>2 DEF Answering, Turns, Matches, Closing, Parsing, clientVars
  <2> QED BY <2>2, <2>3 DEF Answering
<1>3. CASE ~broken
  <2>1. /\ responses' = Append(responses, Response)
        /\ UNCHANGED <<clientVars, cap, cur, body, line, need, handled>>
        /\ IF should_keep_alive(script[cur]) THEN stage' = "headers" /\ buf' = left
           ELSE stage' = "closed" /\ buf' = buf
    BY <1>3 DEF Write
  <2>2. /\ Response \in [status : {200, 400}, body : Seq(Units), close : BOOLEAN]
        /\ Response.status = 200 /\ Response.body = body
        /\ Response.close => ~should_keep_alive(script[cur])
    BY <1>1 DEF ConnType, Response
  <2>3. responses' \in Seq([status : {200, 400}, body : Seq(Units), close : BOOLEAN])
    BY <1>1, <2>1, <2>2, OneMore DEF ConnType
  <2>4. ConnType'
    BY <1>1, <2>1, <2>3 DEF ConnType, Units, Parsing, clientVars
  <2>5. Response.body = handled[Len(handled)].body
    BY <1>1, <2>2 DEF Answering, Turns
  <2>6. stage' \in {"headers", "recv", "closed"} /\ (Response.close => stage' = "closed")
    BY <2>1, <2>2
  <2>7. UNCHANGED <<impl, handled>>
    BY <2>1 DEF clientVars
  <2> QED BY <1>1, <2>1, <2>2, <2>4, <2>5, <2>6, <2>7, Responded
<1> QED BY <1>2, <1>3

\* The 400 after a parse error is the last response.
LEMMA BadStep == ASSUME Answering, impl # "echo", BadRequest PROVE Answering'
<1>1. /\ stage = "bad_request" /\ stage' = "closed" /\ ConnType
      /\ UNCHANGED <<clientVars, buf, cap, cur, body, line, need, error, handled>>
  BY DEF BadRequest, Answering
<1>2. CASE responses' = responses
  <2>1. ConnType' /\ Quietly
    BY <1>1, <1>2 DEF ConnType, Units, Quietly, Parsing, clientVars
  <2> QED BY <2>1, QuietStep
<1>3. CASE responses' = Append(responses, [status |-> 400, body |-> <<>>, close |-> TRUE])
  <2> DEFINE x == [status |-> 400, body |-> <<>>, close |-> TRUE]
  <2>1. /\ x \in [status : {200, 400}, body : Seq(Units), close : BOOLEAN]
        /\ x.status = 400 /\ responses' = Append(responses, x)
    BY <1>3
  <2> HIDE DEF x
  <2>2. responses' \in Seq([status : {200, 400}, body : Seq(Units), close : BOOLEAN])
    BY <1>1, <2>1, OneMore DEF ConnType
  <2>3. ConnType'
    BY <1>1, <2>2 DEF ConnType, Units, clientVars
  <2> QED BY <1>1, <2>1, <2>3, Responded DEF clientVars
<1> QED BY <1>2, <1>3 DEF BadRequest

\* The echo server answers what it received.
LEMMA EchoStep == ASSUME Answering, EchoRecv \/ EchoSend PROVE Answering'
<1>t. /\ ConnType /\ impl = "echo" /\ cap \in Nat /\ wire \in Seq(Units) /\ buf \in Seq(Units)
      /\ handled \in Seq([request : Nat, body : Seq(Units)]) /\ Len(handled) \in Nat
      /\ responses \in Seq([status : {200, 400}, body : Seq(Units), close : BOOLEAN])
      /\ Len(responses) \in Nat
  BY DEF Answering, ConnType, EchoRecv, EchoSend
<1>0. ASSUME stage' = "closed", stage # "closed", buf' \in Seq(Units),
             UNCHANGED <<clientVars, cap, cur, body, line, need, handled, responses>>
      PROVE  Answering'
  <2>1. ConnType'
    BY <1>t, <1>0 DEF ConnType, Units, clientVars
  <2>2. Turns' /\ Matches' /\ Closing'
    BY <1>t, <1>0 DEF Answering, Turns, Matches, Closing, Parsing, clientVars
  <2> QED BY <2>1, <2>2 DEF Answering
<1>1. CASE EchoRecv
  <2>1. stage = "recv"
    BY <1>1 DEF EchoRecv
  <2>2. CASE Closed
    BY <1>0, <1>t, <2>1, <2>2 DEF Closed, resultVars
  <2>3. CASE /\ \E n \in ReadCounts(cap) :
                   /\ buf' = Take(wire, n) /\ wire' = Drop(wire, n)
                   /\ handled' = Append(handled, [request |-> Len(handled) + 1, body |-> buf'])
             /\ stage' = "send"
             /\ UNCHANGED <<impl, client, script, eof, broken, cap, cur, body, line, need, error,
                            responses>>
    <3>1. PICK n \in ReadCounts(cap) :
               /\ buf' = Take(wire, n) /\ wire' = Drop(wire, n)
               /\ handled' = Append(handled, [request |-> Len(handled) + 1, body |-> buf'])
      BY <2>3
    <3>2. buf' \in Seq(Units) /\ wire' \in Seq(Units)
      BY <1>t, <3>1, ReadType
    <3>3. /\ stage' = "send"
          /\ UNCHANGED <<impl, client, script, eof, broken, cap, cur, body, line, need, error,
                         responses>>
      BY <2>3
    <3> DEFINE x == [request |-> Len(handled) + 1, body |-> buf']
    <3>4. x \in [request : Nat, body : Seq(Units)] /\ x.body = buf' /\ handled' = Append(handled, x)
      BY <1>t, <3>1, <3>2
    <3> HIDE DEF x
    <3>5. handled' \in Seq([request : Nat, body : Seq(Units)])
      BY <1>t, <3>4, OneMore
    <3>6. ConnType'
      BY <1>t, <3>2, <3>3, <3>5 DEF ConnType, Units
    <3> QED BY <2>1, <3>3, <3>4, <3>6, GivenToHandler
  <2> QED BY <1>1, <2>2, <2>3 DEF EchoRecv
<1>2. CASE EchoSend
  <2>1. stage = "send" /\ buf' = <<>> /\ buf' \in Seq(Units)
        /\ UNCHANGED <<clientVars, cap, cur, body, line, need, handled>>
    BY <1>2 DEF EchoSend
  <2>2. CASE broken
    BY <1>0, <1>2, <2>1, <2>2 DEF EchoSend
  <2>3. CASE ~broken
    <3>1. PICK n \in 1 .. Len(buf) :
             responses' = Append(responses, [status |-> 200, close |-> FALSE, body |-> Take(buf, n)])
      BY <1>2, <2>3 DEF EchoSend
    <3>2. stage' = "recv"
      BY <1>2, <2>3 DEF EchoSend
    <3> DEFINE x == [status |-> 200, close |-> FALSE, body |-> Take(buf, n)]
    <3>3. n \in 0 .. Len(buf) /\ Take(buf, n) \in Seq(Units) /\ Len(Take(buf, n)) = n
      BY <1>t, Cuts
    <3>4. /\ x \in [status : {200, 400}, body : Seq(Units), close : BOOLEAN]
          /\ x.status = 200 /\ ~x.close /\ x.body = Take(buf, n) /\ responses' = Append(responses, x)
      BY <3>1, <3>3
    <3>5. IsPrefix(Take(buf, n), buf)
      BY <1>t, <3>3 DEF IsPrefix, Take
    <3> HIDE DEF x
    <3>6. responses' \in Seq([status : {200, 400}, body : Seq(Units), close : BOOLEAN])
      BY <1>t, <3>4, OneMore
    <3>7. ConnType'
      BY <1>t, <2>1, <3>2, <3>6 DEF ConnType, Units, clientVars
    <3>8. handled[Len(handled)].body = buf
      BY <2>1 DEF Answering, Turns
    <3> QED BY <1>t, <2>1, <3>2, <3>4, <3>5, <3>7, <3>8, Responded DEF clientVars
  <2> QED BY <2>2, <2>3
<1> QED BY <1>1, <1>2

\* The client sends less, or breaks the connection.
LEMMA ClientStep == ASSUME Answering, ClientClose \/ ClientReset PROVE Answering'
<1>1. wire \in Seq(Units) /\ ConnType
  BY DEF Answering, ConnType
<1>2. UNCHANGED <<impl, script, parserVars, resultVars>> /\ stage' = stage
  BY DEF ClientClose, ClientReset, parserVars
<1>3. wire' \in Seq(Units)
  BY <1>1, Cuts DEF ClientClose, ClientReset
<1>4. ConnType'
  BY <1>1, <1>2, <1>3 DEF ConnType, Units, parserVars, resultVars
<1>5. Turns' /\ Matches' /\ Closing'
  BY <1>2 DEF Answering, Turns, Matches, Closing, parserVars, resultVars
<1> QED BY <1>4, <1>5 DEF Answering

\* Every step of the connection keeps it, and every step of the server.
LEMMA ConnectionStep == ASSUME Answering, ConnectionNext PROVE Answering'
<1>t. ConnType /\ buf \in Seq(Units) /\ reset \in Seq(Units) /\ need \in Nat /\ ReadChunk \in Nat
  BY BufAssumption DEF Answering, ConnType, reset
<1>1. CASE HttpParser \/ KimojioHttpParser
  BY <1>t, <1>1, ParseType, QuietStep DEF HttpParser, KimojioHttpParser
<1>2. CASE HttpParserBody \/ KimojioHttpParserBody
  <2>1. impl # "echo"
    BY <1>2 DEF HttpParserBody, KimojioHttpParserBody
  <2>2. \E limit \in Nat : FromBuffer \/ ReadExact(limit) \/ ExactDone \/ ReadLine
    BY <1>t, <1>2 DEF HttpParserBody, KimojioHttpParserBody
  <2> QED BY <1>t, <2>1, <2>2, BodyType, QuietStep
<1>3. CASE handle_connection \/ handle_http_connection
  BY <1>t, <1>3, HandleStep, WriteStep, BadStep DEF handle_connection, handle_http_connection
<1>4. CASE EchoRecv \/ EchoSend
  BY <1>4, EchoStep
<1>5. CASE ClientClose \/ ClientReset
  BY <1>5, ClientStep
<1> QED BY <1>1, <1>2, <1>3, <1>4, <1>5 DEF ConnectionNext, Server

\* A step elsewhere leaves the connection's answers alone.
LEMMA ConnectionStays == ASSUME Answering, UNCHANGED connectionVars PROVE Answering'
  BY DEF connectionVars, clientVars, parserVars, resultVars, Answering, ConnType, Units, Turns,
         Matches, Closing

\* Every step keeps the answers in order.
LEMMA AnsweringStep == ASSUME Answering, [Next]_vars PROVE Answering'
<1>1. CASE Serve
  BY <1>1, ConnectionStep DEF Serve
<1>2. CASE Loop(LoopNext) \/ (\E k \in Clients : OtherDone(k)) \/ UNCHANGED vars
  <2>1. UNCHANGED connectionVars
    BY <1>2 DEF Loop, OtherDone, vars
  <2> QED BY <2>1, ConnectionStays
<1> QED BY <1>1, <1>2 DEF Next

\* Whatever the server, the client and its script: response k carries the body the
\* handler was given for request k, and nothing follows a response that closes
\* (handle_connection, handle_http_connection and the echo server's).
THEOREM ResponsesInOrder == Spec => []AnsweredInOrder
<1>1. Init => Answering
  BY ConnTypeInit DEF Answering
<1>2. Answering /\ [Next]_vars => Answering'
  BY AnsweringStep
<1>3. Answering => AnsweredInOrder
  BY DEF Answering, Turns, Matches, Closing, AnsweredInOrder
<1> QED BY <1>1, <1>2, <1>3, PTL DEF Spec

(***************************************************************************)
(* What the handler is given.  The server never sees where a request       *)
(* begins: it follows heads, sizes, data and empty lines through a stream  *)
(* that comes in pieces of any length.  The first part says how the stream *)
(* is laid out: where each request, its head, its chunks and its trailers  *)
(* are among the units that the client sends.                              *)
(***************************************************************************)

\* The chunks of a request's body as they are sent: a line with the size, the
\* data and an end of line.
ChunkPieces(r, i) ==
  [c \in 1 .. Len(r.chunks) |->
     LineOf(IF r.bad = "size" THEN Unit("junk", i, 0) ELSE Unit("size", i, r.chunks[c]), i)
     \o Data(i, c, r.chunks[c]) \o <<Unit("nl", i, 0)>>]

\* The data of its chunks, whose concatenation is its body.
Datas(r, i) == [c \in 1 .. Len(r.chunks) |-> Data(i, c, r.chunks[c])]

\* The lines of its trailers.
Trailers(r, i) == [t \in 1 .. r.trailers |-> LineOf(Unit("trailer", i, t), i)]

\* Where the c-th chunk ends, among the chunks and in the body.
PieceOff(r, i) == Offsets(ChunkPieces(r, i))
DataOff(r, i)  == Offsets(Datas(r, i))

\* Joining at known lengths.
LEMMA JoinedParts ==
  ASSUME NEW U, NEW a \in Seq(U), NEW b \in Seq(U), NEW y, y = a \o b
  PROVE  /\ y \in Seq(U) /\ Len(y) = Len(a) + Len(b) /\ Len(a) \in Nat /\ Len(b) \in Nat
         /\ \A j \in 1 .. Len(a) : y[j] = a[j]
         /\ \A j \in 1 .. Len(b) : y[Len(a) + j] = b[j]
  OBVIOUS

\* A line is its unit and an end of line.
LEMMA LineIs ==
  ASSUME NEW I, NEW i \in I, NEW u \in UnitsOf(I)
  PROVE  /\ LineOf(u, i) \in Seq(UnitsOf(I)) /\ Len(LineOf(u, i)) = 2
         /\ LineOf(u, i)[1] = u /\ LineOf(u, i)[2] = Unit("nl", i, 0)
<1>1. Unit("nl", i, 0) \in UnitsOf(I)
  BY DEF Unit, UnitsOf
<1> QED BY <1>1 DEF LineOf

\* A chunk's data is as many units as its size, which is not 0.
LEMMA DataIs ==
  ASSUME NEW I, NEW i \in I, NEW r \in Requests, NEW c \in 1 .. Len(r.chunks)
  PROVE  /\ r.chunks[c] \in Nat \ {0}
         /\ Data(i, c, r.chunks[c]) \in Seq(UnitsOf(I))
         /\ Len(Data(i, c, r.chunks[c])) = r.chunks[c]
<1>1. r.chunks[c] \in Nat \ {0} /\ c \in Nat
  BY DEF Requests
<1>2. Data(i, c, r.chunks[c]) \in Seq(UnitsOf(I))
  BY <1>1, DataType
<1> QED BY <1>1, <1>2 DEF Data

\* Three sequences joined: where the units of each are.
LEMMA ThreeParts ==
  ASSUME NEW U, NEW a \in Seq(U), NEW d \in Seq(U), NEW e \in Seq(U), NEW x, x = (a \o d) \o e
  PROVE  /\ x \in Seq(U) /\ Len(x) = Len(a) + Len(d) + Len(e)
         /\ \A j \in 1 .. Len(a) : x[j] = a[j]
         /\ \A j \in 1 .. Len(d) : x[Len(a) + j] = d[j]
         /\ \A j \in 1 .. Len(e) : x[Len(a) + Len(d) + j] = e[j]
<1>1. PICK y : y = a \o d
  OBVIOUS
<1>2. /\ y \in Seq(U) /\ Len(y) = Len(a) + Len(d) /\ Len(a) \in Nat /\ Len(d) \in Nat
      /\ \A j \in 1 .. Len(a) : y[j] = a[j]
      /\ \A j \in 1 .. Len(d) : y[Len(a) + j] = d[j]
  BY <1>1, JoinedParts
<1>3. x = y \o e /\ y \in Seq(U)
  BY <1>1, <1>2
<1>4. /\ x \in Seq(U) /\ Len(x) = Len(y) + Len(e) /\ Len(e) \in Nat
      /\ \A j \in 1 .. Len(y) : x[j] = y[j]
      /\ \A j \in 1 .. Len(e) : x[Len(y) + j] = e[j]
  BY <1>3, JoinedParts
<1>5. /\ \A j \in 1 .. Len(a) : j \in 1 .. Len(y)
      /\ \A j \in 1 .. Len(d) : Len(a) + j \in 1 .. Len(y)
  BY <1>2
<1> QED BY <1>2, <1>4, <1>5

\* A chunk as it is sent: its size, an end of line, its data, an end of line.
LEMMA PieceIs ==
  ASSUME NEW I, NEW i \in I, NEW r \in Requests, NEW c \in 1 .. Len(r.chunks),
         NEW n, n = r.chunks[c], NEW x, x = ChunkPieces(r, i)[c]
  PROVE  /\ x \in Seq(UnitsOf(I)) /\ Len(x) = n + 3
         /\ x[1] = IF r.bad = "size" THEN Unit("junk", i, 0) ELSE Unit("size", i, n)
         /\ x[2] = Unit("nl", i, 0) /\ x[n + 3] = Unit("nl", i, 0)
         /\ \A j \in 1 .. n : x[2 + j] = Data(i, c, n)[j]
<1> DEFINE U == UnitsOf(I)
           u == IF r.bad = "size" THEN Unit("junk", i, 0) ELSE Unit("size", i, n)
           a == LineOf(u, i)
           d == Data(i, c, n)
           e == <<Unit("nl", i, 0)>>
<1>1. n \in Nat \ {0}
  BY DataIs
<1>2. u \in U /\ Unit("nl", i, 0) \in U
  BY <1>1 DEF Unit, UnitsOf
<1>3. d \in Seq(U) /\ Len(d) = n
  BY DataIs
<1>4. e \in Seq(U) /\ Len(e) = 1 /\ e[1] = Unit("nl", i, 0)
  BY <1>2
<1>5. a \in Seq(U) /\ Len(a) = 2 /\ a[1] = u /\ a[2] = Unit("nl", i, 0)
  BY <1>2, LineIs
<1>6. x = (a \o d) \o e
  BY DEF ChunkPieces
<1> HIDE DEF U, u, a, d, e
<1>m. a \in Seq(U) /\ d \in Seq(U) /\ e \in Seq(U)
  BY <1>3, <1>4, <1>5
<1>7. /\ x \in Seq(U) /\ Len(x) = Len(a) + Len(d) + Len(e)
      /\ \A j \in 1 .. Len(a) : x[j] = a[j]
      /\ \A j \in 1 .. Len(d) : x[Len(a) + j] = d[j]
      /\ \A j \in 1 .. Len(e) : x[Len(a) + Len(d) + j] = e[j]
  BY <1>m, <1>6, ThreeParts
<1>8. /\ 2 + n + 1 = n + 3 /\ 1 \in 1 .. 2 /\ 2 \in 1 .. 2 /\ 1 \in 1 .. 1
  BY <1>1
<1>9. /\ Len(x) = n + 3 /\ x[1] = a[1] /\ x[2] = a[2] /\ x[n + 3] = e[1]
      /\ \A j \in 1 .. n : x[2 + j] = d[j]
  BY <1>3, <1>4, <1>5, <1>7, <1>8
<1> QED BY <1>4, <1>5, <1>7, <1>9 DEF U, u, d

\* What is known of the chunks of a request.
ChunkFacts(r, k) ==
  LET m == Len(r.chunks)
      C == PieceOff(r, k)
      D == DataOff(r, k)
      x == FlattenSeq(ChunkPieces(r, k))
      pay == Payload(r, k)
  IN  /\ m \in Nat /\ C \in [0 .. m -> Nat] /\ D \in [0 .. m -> Nat]
      /\ C[0] = 0 /\ D[0] = 0 /\ C[m] = Len(x) /\ D[m] = Len(pay)
      /\ \A c \in 0 .. m : C[c] <= C[m] /\ D[c] <= D[m]
      /\ \A c \in 1 .. m :
           /\ r.chunks[c] \in Nat \ {0}
           /\ C[c] = C[c - 1] + r.chunks[c] + 3 /\ D[c] = D[c - 1] + r.chunks[c]
           /\ x[C[c - 1] + 1] = IF r.bad = "size" THEN Unit("junk", k, 0)
                                ELSE Unit("size", k, r.chunks[c])
           /\ x[C[c - 1] + 2] = Unit("nl", k, 0) /\ x[C[c]] = Unit("nl", k, 0)
           /\ \A j \in 1 .. r.chunks[c] : x[C[c - 1] + 2 + j] = pay[D[c - 1] + j]

\* The chunks: their lines, and their data as part of the body.
LEMMA ChunksShape ==
  ASSUME NEW I, NEW i \in I, NEW r \in Requests
  PROVE  ChunkFacts(r, i) /\ FlattenSeq(ChunkPieces(r, i)) \in Seq(UnitsOf(I))
<1> DEFINE m == Len(r.chunks)
           C == PieceOff(r, i)
           D == DataOff(r, i)
           ps == ChunkPieces(r, i)
           ds == Datas(r, i)
           x == FlattenSeq(ps)
           pay == Payload(r, i)
           U == UnitsOf(I)
<1>1. m \in Nat
  BY DEF Requests
<1>2. pay = FlattenSeq(ds)
  BY DEF Payload, Datas
<1>3. \A c \in 1 .. m : ps[c] \in Seq(U)
  BY PieceIs
<1>a. \A c \in 1 .. m : ds[c] = Data(i, c, r.chunks[c])
  BY DEF Datas
<1>b. \A c \in 1 .. m : Data(i, c, r.chunks[c]) \in Seq(U) /\ Len(Data(i, c, r.chunks[c])) = r.chunks[c]
  BY DataIs
<1>4. \A c \in 1 .. m : ds[c] \in Seq(U) /\ ds[c] = Data(i, c, r.chunks[c]) /\ Len(ds[c]) = r.chunks[c]
  BY <1>a, <1>b
<1>c. DOMAIN ps = 1 .. m /\ DOMAIN ds = 1 .. m /\ ps = [c \in 1 .. m |-> ps[c]] /\ ds = [c \in 1 .. m |-> ds[c]]
  BY DEF ChunkPieces, Datas
<1>5. ps \in Seq(Seq(U)) /\ Len(ps) = m
  <2> HIDE DEF ps, ds, U, m
  <2> QED BY <1>1, <1>3, <1>c
<1>6. ds \in Seq(Seq(U)) /\ Len(ds) = m
  <2> HIDE DEF ps, ds, U, m
  <2> QED BY <1>1, <1>4, <1>c
<1>7. C = Offsets(ps) /\ D = Offsets(ds)
  BY DEF PieceOff, DataOff
<1> HIDE DEF C, D, ps, ds, x, pay, U, m
<1>8. C \in [0 .. m -> Nat] /\ Splits(C, ps, x) /\ x \in Seq(U)
  BY <1>5, <1>7, FlattenSplits, FlattenType DEF x
<1>9. D \in [0 .. m -> Nat] /\ Splits(D, ds, pay) /\ pay \in Seq(U)
  BY <1>2, <1>6, <1>7, FlattenSplits, FlattenType
<1>10. C[0] = 0 /\ D[0] = 0 /\ C[m] = Len(x) /\ D[m] = Len(pay)
  BY <1>5, <1>6, <1>8, <1>9 DEF Splits
<1>11. \A c \in 0 .. m : C[c] <= C[m] /\ D[c] <= D[m]
  BY <1>1, <1>5, <1>6, <1>8, <1>9 DEF Splits
<1>12. ASSUME NEW c \in 1 .. m
       PROVE  /\ r.chunks[c] \in Nat \ {0}
              /\ C[c] = C[c - 1] + r.chunks[c] + 3 /\ D[c] = D[c - 1] + r.chunks[c]
              /\ x[C[c - 1] + 1] = IF r.bad = "size" THEN Unit("junk", i, 0)
                                   ELSE Unit("size", i, r.chunks[c])
              /\ x[C[c - 1] + 2] = Unit("nl", i, 0) /\ x[C[c]] = Unit("nl", i, 0)
              /\ \A j \in 1 .. r.chunks[c] : x[C[c - 1] + 2 + j] = pay[D[c - 1] + j]
  <2>1. PICK n \in Nat \ {0} : n = r.chunks[c]
    BY DataIs DEF m
  <2>2. /\ Len(ps[c]) = n + 3
        /\ ps[c][1] = IF r.bad = "size" THEN Unit("junk", i, 0) ELSE Unit("size", i, n)
        /\ ps[c][2] = Unit("nl", i, 0) /\ ps[c][n + 3] = Unit("nl", i, 0)
        /\ \A j \in 1 .. n : ps[c][2 + j] = ds[c][j]
    <3>1. /\ Len(ps[c]) = n + 3
          /\ ps[c][1] = IF r.bad = "size" THEN Unit("junk", i, 0) ELSE Unit("size", i, n)
          /\ ps[c][2] = Unit("nl", i, 0) /\ ps[c][n + 3] = Unit("nl", i, 0)
          /\ \A j \in 1 .. n : ps[c][2 + j] = Data(i, c, n)[j]
      BY <2>1, PieceIs, SMTT(30) DEF ps, m
    <3> QED BY <1>4, <2>1, <3>1
  <2>3. c - 1 \in 0 .. m /\ c \in 0 .. m
    BY <1>1
  <2>4. C[c - 1] \in Nat /\ D[c - 1] \in Nat
    BY <1>8, <1>9, <2>3
  <2>a. C[c] = C[c - 1] + Len(ps[c]) /\ D[c] = D[c - 1] + Len(ds[c])
    BY <1>5, <1>6, <1>8, <1>9 DEF Splits
  <2>5. C[c] = C[c - 1] + (n + 3) /\ D[c] = D[c - 1] + n
    BY <1>4, <2>1, <2>2, <2>a
  <2>6. \A j \in 1 .. n + 3 : x[C[c - 1] + j] = ps[c][j]
    BY <1>5, <1>8, <2>2 DEF Splits
  <2>7. \A j \in 1 .. n : pay[D[c - 1] + j] = ds[c][j]
    BY <1>4, <1>6, <1>9, <2>1 DEF Splits
  <2>8. x[C[c - 1] + 1] = ps[c][1] /\ x[C[c - 1] + 2] = ps[c][2] /\ x[C[c - 1] + (n + 3)] = ps[c][n + 3]
    <3>1. 1 \in 1 .. n + 3 /\ 2 \in 1 .. n + 3 /\ n + 3 \in 1 .. n + 3
      OBVIOUS
    <3> QED BY <2>6, <3>1
  <2>9. ASSUME NEW j \in 1 .. n PROVE x[C[c - 1] + 2 + j] = pay[D[c - 1] + j]
    <3>1. 2 + j \in 1 .. n + 3 /\ C[c - 1] + 2 + j = C[c - 1] + (2 + j)
      BY <2>4
    <3>2. x[C[c - 1] + (2 + j)] = ps[c][2 + j]
      BY <2>6, <3>1
    <3> QED BY <2>2, <2>7, <3>1, <3>2
  <2>10. C[c] = C[c - 1] + n + 3
    BY <2>4, <2>5
  <2> QED BY <2>1, <2>2, <2>5, <2>8, <2>9, <2>10
<1> QED BY <1>1, <1>8, <1>9, <1>10, <1>11, <1>12 DEF m, C, D, x, pay, U, ps, ChunkFacts

\* The same, whatever the number of the request.
LEMMA ChunkFactsHold ==
  ASSUME NEW k, NEW r \in Requests
  PROVE  ChunkFacts(r, k)
<1>1. PICK I : k \in I
  OBVIOUS
<1> QED BY <1>1, ChunksShape

\* Offsets that grow by two are the even numbers.
LEMMA TwoEach ==
  ASSUME NEW n \in Nat, NEW o \in [0 .. n -> Nat], o[0] = 0,
         \A t \in 1 .. n : o[t] = o[t - 1] + 2
  PROVE  \A t \in 0 .. n : o[t] = 2 * t
<1> DEFINE S == {t \in Nat : t <= n => o[t] = 2 * t}
<1>1. 0 \in S
  OBVIOUS
<1>2. ASSUME NEW t \in Nat, t \in S PROVE t + 1 \in S
  <2>1. SUFFICES ASSUME t + 1 <= n PROVE o[t + 1] = 2 * (t + 1)
    OBVIOUS
  <2>2. t + 1 \in 1 .. n /\ (t + 1) - 1 = t /\ t <= n
    BY <2>1
  <2>3. o[t + 1] = o[t] + 2 /\ o[t] = 2 * t
    BY <1>2, <2>2
  <2> QED BY <2>3
<1>3. \A t \in Nat : t \in S
  <2> HIDE DEF S
  <2> QED BY <1>1, <1>2, SetInduction
<1> QED BY <1>3

\* The trailers are lines: a name and an end of line by turns.
LEMMA TrailersShape ==
  ASSUME NEW I, NEW i \in I, NEW r \in Requests, NEW y, y = FlattenSeq(Trailers(r, i))
  PROVE  /\ y \in Seq(UnitsOf(I)) /\ Len(y) = 2 * r.trailers /\ r.trailers \in Nat
         /\ \A t \in 1 .. r.trailers : /\ y[2 * t - 1] = Unit("trailer", i, t)
                                       /\ y[2 * t] = Unit("nl", i, 0)
<1> DEFINE n == r.trailers
           q == Trailers(r, i)
           U == UnitsOf(I)
           o == Offsets(q)
<1>1. n \in Nat
  BY DEF Requests
<1>2. \A t \in 1 .. n : Unit("trailer", i, t) \in U
  BY <1>1 DEF Unit, UnitsOf
<1>3. \A t \in 1 .. n : q[t] = LineOf(Unit("trailer", i, t), i)
  BY DEF Trailers
<1>4. \A t \in 1 .. n : /\ q[t] \in Seq(U) /\ Len(q[t]) = 2
                        /\ q[t][1] = Unit("trailer", i, t) /\ q[t][2] = Unit("nl", i, 0)
  BY <1>2, <1>3, LineIs
<1>5. q = [t \in 1 .. n |-> q[t]]
  BY DEF Trailers
<1> HIDE DEF n, q, U, o
<1>6. q \in Seq(Seq(U)) /\ Len(q) = n
  BY <1>1, <1>4, <1>5
<1>7. y = FlattenSeq(q)
  BY DEF q
<1>8. o \in [0 .. n -> Nat] /\ Splits(o, q, y) /\ y \in Seq(U)
  BY <1>6, <1>7, FlattenSplits, FlattenType DEF o
<1>9. o[0] = 0 /\ Len(y) = o[n] /\ \A t \in 1 .. n : o[t] = o[t - 1] + Len(q[t])
  BY <1>6, <1>8 DEF Splits
<1>10. \A t \in 1 .. n : o[t] = o[t - 1] + 2
  BY <1>4, <1>9
<1>11. \A t \in 0 .. n : o[t] = 2 * t
  BY <1>1, <1>8, <1>9, <1>10, TwoEach
<1>12. ASSUME NEW t \in 1 .. n
       PROVE  y[2 * t - 1] = Unit("trailer", i, t) /\ y[2 * t] = Unit("nl", i, 0)
  <2>1. \A j \in 1 .. Len(q[t]) : y[o[t - 1] + j] = q[t][j]
    BY <1>6, <1>8 DEF Splits
  <2>2. 1 \in 1 .. 2 /\ 2 \in 1 .. 2 /\ t - 1 \in 0 .. n /\ 2 * (t - 1) + 1 = 2 * t - 1 /\ 2 * (t - 1) + 2 = 2 * t
    BY <1>1
  <2>3. o[t - 1] = 2 * (t - 1)
    BY <1>11, <2>2
  <2>4. y[o[t - 1] + 1] = q[t][1] /\ y[o[t - 1] + 2] = q[t][2]
    BY <1>4, <2>1, <2>2
  <2> QED BY <1>4, <2>2, <2>3, <2>4
<1>13. Len(y) = 2 * n
  BY <1>1, <1>9, <1>11
<1> QED BY <1>1, <1>8, <1>12, <1>13 DEF n, U

\* A head is its lines and the empty line that ends it, unless it is malformed.
LEMMA HeadShape ==
  ASSUME NEW I, NEW i \in I, NEW r \in Requests, NEW x, x = HeadUnits(r, i)
  PROVE  /\ x \in Seq(UnitsOf(I))
         /\ r.bad = "head" => Len(x) = 1 /\ x[1] = Unit("bad", i, 1)
         /\ r.bad # "head" =>
              /\ r.head \in Nat \ {0} /\ Len(x) = r.head /\ x[r.head] = Unit("end", i, r.head)
              /\ \A j \in 1 .. r.head - 1 : x[j] = Unit("head", i, j)
<1>1. r.head \in Nat \ {0}
  BY DEF Requests
<1>2. CASE r.bad = "head"
  <2>1. x = <<Unit("bad", i, 1)>>
    BY <1>2 DEF HeadUnits
  <2>2. Unit("bad", i, 1) \in UnitsOf(I)
    BY DEF Unit, UnitsOf
  <2> QED BY <1>2, <2>1, <2>2
<1>3. CASE r.bad # "head"
  <2> DEFINE g(k) == Unit(IF k = r.head THEN "end" ELSE "head", i, k)
  <2>1. x = [k \in 1 .. r.head |-> g(k)]
    BY <1>3 DEF HeadUnits
  <2>2. \A k \in 1 .. r.head : g(k) \in UnitsOf(I)
    BY <1>1 DEF Unit, UnitsOf
  <2>3. \A k \in 1 .. r.head - 1 : g(k) = Unit("head", i, k)
    BY <1>1
  <2>4. g(r.head) = Unit("end", i, r.head)
    OBVIOUS
  <2> HIDE DEF g
  <2>5. x \in Seq(UnitsOf(I)) /\ Len(x) = r.head /\ \A k \in 1 .. r.head : x[k] = g(k)
    BY <1>1, <2>1, <2>2
  <2> QED BY <1>1, <1>3, <2>3, <2>4, <2>5
<1> QED BY <1>2, <1>3

\* A request begins with its head.
LEMMA EncodeHead ==
  ASSUME NEW I, NEW i \in I, NEW r \in Requests, NEW E, E = Encode(r, i)
  PROVE  /\ E \in Seq(UnitsOf(I)) /\ Len(E) \in Nat \ {0}
         /\ r.bad = "head" => E[1] = Unit("bad", i, 1)
         /\ r.bad # "head" =>
              /\ r.head \in Nat \ {0} /\ r.head <= Len(E) /\ E[r.head] = Unit("end", i, r.head)
              /\ \A j \in 1 .. r.head - 1 : E[j] = Unit("head", i, j)
<1> DEFINE h == HeadUnits(r, i)
           b == IF r.chunked THEN ChunkedUnits(r, i) ELSE Payload(r, i)
           U == UnitsOf(I)
<1>1. h \in Seq(U) /\ b \in Seq(U) /\ E = h \o b
  BY HeadShape, EncodeType DEF Encode
<1>2. /\ r.bad = "head" => Len(h) = 1 /\ h[1] = Unit("bad", i, 1)
      /\ r.bad # "head" =>
              /\ r.head \in Nat \ {0} /\ Len(h) = r.head /\ h[r.head] = Unit("end", i, r.head)
              /\ \A j \in 1 .. r.head - 1 : h[j] = Unit("head", i, j)
  BY HeadShape
<1> HIDE DEF h, b, U
<1>3. /\ E \in Seq(U) /\ Len(E) = Len(h) + Len(b) /\ Len(h) \in Nat /\ Len(b) \in Nat
      /\ \A j \in 1 .. Len(h) : E[j] = h[j]
  BY <1>1, JoinedParts
<1>4. CASE r.bad = "head"
  <2>1. 1 \in 1 .. 1
    OBVIOUS
  <2> QED BY <1>2, <1>3, <1>4, <2>1 DEF U
<1>5. CASE r.bad # "head"
  <2>1. r.head \in 1 .. r.head /\ \A j \in 1 .. r.head - 1 : j \in 1 .. r.head
    BY <1>2, <1>5
  <2> QED BY <1>2, <1>3, <1>5, <2>1 DEF U
<1> QED BY <1>4, <1>5

\* A body that is not chunked is units of data.
LEMMA EncodePlain ==
  ASSUME NEW I, NEW i \in I, NEW r \in Requests, ~r.chunked, r.bad # "head"
  PROVE  /\ Payload(r, i) \in Seq(UnitsOf(I)) /\ Len(Encode(r, i)) = r.head + Len(Payload(r, i))
         /\ \A j \in 1 .. Len(Payload(r, i)) :
              Encode(r, i)[r.head + j] = Payload(r, i)[j] /\ Payload(r, i)[j][1] = "data"
<1> DEFINE E == Encode(r, i)
           pay == Payload(r, i)
           h == HeadUnits(r, i)
           U == UnitsOf(I)
           V == {"data"} \X I \X Nat
<1>1. h \in Seq(U) /\ pay \in Seq(U) /\ E = h \o pay
  BY HeadShape, EncodeType DEF Encode
<1>2. Len(h) = r.head
  BY HeadShape
<1>3. pay \in Seq(V)
  <2>1. r.chunks \in Seq(Nat \ {0}) /\ Len(r.chunks) \in Nat
    BY DEF Requests
  <2>2. ASSUME NEW c \in 1 .. Len(r.chunks) PROVE Data(i, c, r.chunks[c]) \in Seq(V)
    <3>1. r.chunks[c] \in Nat /\ c \in Nat
      BY <2>1
    <3>2. \A k \in 1 .. r.chunks[c] : 10 * c + k \in Nat
      BY <3>1
    <3>3. \A k \in 1 .. r.chunks[c] : Unit("data", i, 10 * c + k) \in V
      BY <3>2 DEF Unit
    <3> HIDE DEF V
    <3> QED BY <3>1, <3>3 DEF Data
  <2> HIDE DEF V
  <2>3. [c \in 1 .. Len(r.chunks) |-> Data(i, c, r.chunks[c])] \in Seq(Seq(V))
    BY <2>1, <2>2
  <2> QED BY <2>3, FlattenType DEF Payload
<1>4. \A j \in 1 .. Len(pay) : pay[j][1] = "data"
  <2>1. \A j \in 1 .. Len(pay) : pay[j] \in V
    <3> HIDE DEF V, pay
    <3> QED BY <1>3
  <2> HIDE DEF pay
  <2> QED BY <2>1
<1> HIDE DEF h, U, V, E, pay
<1>5. Len(E) = Len(h) + Len(pay) /\ \A j \in 1 .. Len(pay) : E[Len(h) + j] = pay[j]
  BY <1>1, JoinedParts
<1>6. \A j \in 1 .. Len(pay) : E[r.head + j] = pay[j] /\ pay[j][1] = "data"
  BY <1>2, <1>4, <1>5
<1>7. pay \in Seq(U) /\ Len(E) = r.head + Len(pay)
  BY <1>1, <1>2, <1>5
<1> QED BY <1>6, <1>7 DEF U, E, pay

\* Four sequences joined: where the units of each are.
LEMMA FourParts ==
  ASSUME NEW U, NEW a \in Seq(U), NEW d \in Seq(U), NEW e \in Seq(U), NEW f \in Seq(U),
         NEW x, x = ((a \o d) \o e) \o f
  PROVE  /\ x \in Seq(U) /\ Len(x) = Len(a) + Len(d) + Len(e) + Len(f)
         /\ \A j \in 1 .. Len(a) : x[j] = a[j]
         /\ \A j \in 1 .. Len(d) : x[Len(a) + j] = d[j]
         /\ \A j \in 1 .. Len(e) : x[Len(a) + Len(d) + j] = e[j]
         /\ \A j \in 1 .. Len(f) : x[Len(a) + Len(d) + Len(e) + j] = f[j]
<1>1. PICK y : y = (a \o d) \o e
  OBVIOUS
<1>2. /\ y \in Seq(U) /\ Len(y) = Len(a) + Len(d) + Len(e)
      /\ \A j \in 1 .. Len(a) : y[j] = a[j]
      /\ \A j \in 1 .. Len(d) : y[Len(a) + j] = d[j]
      /\ \A j \in 1 .. Len(e) : y[Len(a) + Len(d) + j] = e[j]
  BY <1>1, ThreeParts
<1>3. x = y \o f /\ y \in Seq(U)
  BY <1>1, <1>2
<1>4. /\ x \in Seq(U) /\ Len(x) = Len(y) + Len(f)
      /\ \A j \in 1 .. Len(y) : x[j] = y[j]
      /\ \A j \in 1 .. Len(f) : x[Len(y) + j] = f[j]
  BY <1>3, JoinedParts
<1>5. Len(a) \in Nat /\ Len(d) \in Nat /\ Len(e) \in Nat /\ Len(f) \in Nat
  OBVIOUS
<1>6. /\ \A j \in 1 .. Len(a) : j \in 1 .. Len(y)
      /\ \A j \in 1 .. Len(d) : Len(a) + j \in 1 .. Len(y)
      /\ \A j \in 1 .. Len(e) : Len(a) + Len(d) + j \in 1 .. Len(y)
  BY <1>2, <1>5
<1> QED BY <1>2, <1>4, <1>5, <1>6

\* A chunked body: the chunks, the size 0, the trailers and an end of line.
LEMMA EncodeChunked ==
  ASSUME NEW I, NEW i \in I, NEW r \in Requests, r.chunked, r.bad # "head"
  PROVE  LET E == Encode(r, i)
             x == FlattenSeq(ChunkPieces(r, i))
         IN
         /\ x \in Seq(UnitsOf(I)) /\ r.trailers \in Nat /\ r.head \in Nat
         /\ Len(E) = r.head + Len(x) + 2 * r.trailers + 3
         /\ \A j \in 1 .. Len(x) : E[r.head + j] = x[j]
         /\ E[r.head + Len(x) + 1] = Unit("size", i, 0)
         /\ E[r.head + Len(x) + 2] = Unit("nl", i, 0)
         /\ \A t \in 1 .. r.trailers :
              /\ E[r.head + Len(x) + 2 * t + 1] = Unit("trailer", i, t)
              /\ E[r.head + Len(x) + 2 * t + 2] = Unit("nl", i, 0)
         /\ E[Len(E)] = Unit("nl", i, 0)
<1> DEFINE E == Encode(r, i)
           x == FlattenSeq(ChunkPieces(r, i))
           h == HeadUnits(r, i)
           z == LineOf(Unit("size", i, 0), i)
           y == FlattenSeq(Trailers(r, i))
           e == <<Unit("nl", i, 0)>>
           b == ((x \o z) \o y) \o e
           U == UnitsOf(I)
           T == r.trailers
<1>1. E = h \o b
  BY DEF Encode, ChunkedUnits, ChunkPieces, Trailers
<1>2. h \in Seq(U) /\ Len(h) = r.head /\ r.head \in Nat
  BY HeadShape
<1>3. Unit("size", i, 0) \in U /\ Unit("nl", i, 0) \in U
  BY DEF Unit, UnitsOf
<1>4. z \in Seq(U) /\ Len(z) = 2 /\ z[1] = Unit("size", i, 0) /\ z[2] = Unit("nl", i, 0)
  BY <1>3, LineIs
<1>5. /\ y \in Seq(U) /\ Len(y) = 2 * T /\ T \in Nat
      /\ \A t \in 1 .. T : y[2 * t - 1] = Unit("trailer", i, t) /\ y[2 * t] = Unit("nl", i, 0)
  <2>1. \A v : v = FlattenSeq(Trailers(r, i)) =>
          /\ v \in Seq(UnitsOf(I)) /\ Len(v) = 2 * r.trailers /\ r.trailers \in Nat
          /\ \A t \in 1 .. r.trailers : /\ v[2 * t - 1] = Unit("trailer", i, t)
                                        /\ v[2 * t] = Unit("nl", i, 0)
    BY TrailersShape, ZenonT(30)
  <2> QED BY <2>1, Zenon
<1>6. e \in Seq(U) /\ Len(e) = 1 /\ e[1] = Unit("nl", i, 0)
  BY <1>3
<1>7. x \in Seq(U)
  BY ChunksShape
<1> HIDE DEF h, z, y, e, U, T, E, x
<1>m. z \in Seq(U) /\ y \in Seq(U) /\ e \in Seq(U) /\ h \in Seq(U)
  BY <1>2, <1>4, <1>5, <1>6
<1>8. /\ b \in Seq(U) /\ Len(b) = Len(x) + Len(z) + Len(y) + Len(e)
      /\ \A j \in 1 .. Len(x) : b[j] = x[j]
      /\ \A j \in 1 .. Len(z) : b[Len(x) + j] = z[j]
      /\ \A j \in 1 .. Len(y) : b[Len(x) + Len(z) + j] = y[j]
      /\ \A j \in 1 .. Len(e) : b[Len(x) + Len(z) + Len(y) + j] = e[j]
  BY <1>m, <1>7, FourParts
<1> HIDE DEF b
<1>9. /\ E \in Seq(U) /\ Len(E) = Len(h) + Len(b)
      /\ \A j \in 1 .. Len(b) : E[Len(h) + j] = b[j]
  <2>1. b \in Seq(U) /\ h \in Seq(U) /\ E = h \o b
    BY <1>m, <1>1, <1>8 DEF b
  <2> QED BY <2>1, JoinedParts
<1>10. PICK n \in Nat : n = Len(x)
  BY <1>7
<1>a. PICK l \in Nat : l = 2 * T
  BY <1>5
<1>b. Len(z) = 2 /\ Len(y) = l /\ Len(e) = 1 /\ Len(x) = n /\ Len(h) = r.head
  BY <1>2, <1>4, <1>5, <1>6, <1>10, <1>a
<1>c. Len(b) = Len(x) + Len(z) + Len(y) + Len(e) /\ Len(E) = Len(h) + Len(b)
  BY <1>8, <1>9
<1>d. Len(b) = n + 2 + l + 1 /\ Len(E) = r.head + (n + 2 + l + 1)
  BY <1>b, <1>c, Zenon
<1>11. Len(b) = n + 2 * T + 3 /\ Len(E) = r.head + n + 2 * T + 3
  BY <1>2, <1>5, <1>a, <1>d
<1>12. \A j \in 1 .. n + 2 * T + 3 : E[r.head + j] = b[j]
  BY <1>2, <1>9, <1>11
<1>13. \A j \in 1 .. n : E[r.head + j] = x[j]
  <2>1. \A j \in 1 .. n : j \in 1 .. n + 2 * T + 3
    BY <1>5
  <2> QED BY <1>8, <1>10, <1>12, <2>1
<1>14. b[n + 1] = Unit("size", i, 0) /\ b[n + 2] = Unit("nl", i, 0)
  <2>1. 1 \in 1 .. 2 /\ 2 \in 1 .. 2
    OBVIOUS
  <2> QED BY <1>4, <1>8, <1>10, <2>1
<1>15. \A j \in 1 .. 2 * T : b[n + 2 + j] = y[j]
  <2>1. \A j \in 1 .. Len(y) : b[Len(x) + Len(z) + j] = y[j]
    BY <1>8
  <2>2. \A j \in 1 .. l : b[n + 2 + j] = y[j]
    BY <1>b, <2>1, Zenon
  <2> QED BY <1>a, <2>2
<1>16. b[n + 2 * T + 3] = Unit("nl", i, 0)
  <2>1. 1 \in 1 .. 1 /\ n + 2 + 2 * T + 1 = n + 2 * T + 3
    BY <1>5
  <2>2. b[n + 2 + 2 * T + 1] = e[1]
    BY <1>4, <1>5, <1>6, <1>8, <1>10, <2>1
  <2> QED BY <1>6, <2>1, <2>2
<1>17. E[r.head + n + 1] = Unit("size", i, 0) /\ E[r.head + n + 2] = Unit("nl", i, 0)
  <2>1. /\ n + 1 \in 1 .. n + 2 * T + 3 /\ n + 2 \in 1 .. n + 2 * T + 3
        /\ r.head + n + 1 = r.head + (n + 1) /\ r.head + n + 2 = r.head + (n + 2)
    BY <1>2, <1>5
  <2> QED BY <1>12, <1>14, <2>1
<1>18. E[Len(E)] = Unit("nl", i, 0)
  <2>1. n + 2 * T + 3 \in 1 .. n + 2 * T + 3 /\ r.head + n + 2 * T + 3 = r.head + (n + 2 * T + 3)
    BY <1>2, <1>5
  <2> QED BY <1>11, <1>12, <1>16, <2>1
<1>19. ASSUME NEW t \in 1 .. T
       PROVE  /\ E[r.head + n + 2 * t + 1] = Unit("trailer", i, t)
              /\ E[r.head + n + 2 * t + 2] = Unit("nl", i, 0)
  <2>1. /\ 2 * t - 1 \in 1 .. 2 * T /\ 2 * t \in 1 .. 2 * T
        /\ n + 2 + (2 * t - 1) \in 1 .. n + 2 * T + 3 /\ n + 2 + 2 * t \in 1 .. n + 2 * T + 3
        /\ r.head + n + 2 * t + 1 = r.head + (n + 2 + (2 * t - 1))
        /\ r.head + n + 2 * t + 2 = r.head + (n + 2 + 2 * t)
    BY <1>2, <1>5
  <2>2. b[n + 2 + (2 * t - 1)] = y[2 * t - 1] /\ b[n + 2 + 2 * t] = y[2 * t]
    BY <1>15, <2>1
  <2>3. /\ E[r.head + (n + 2 + (2 * t - 1))] = b[n + 2 + (2 * t - 1)]
        /\ E[r.head + (n + 2 + 2 * t)] = b[n + 2 + 2 * t]
    BY <1>12, <2>1
  <2> QED BY <1>5, <2>1, <2>2, <2>3
<1> QED BY <1>2, <1>5, <1>7, <1>10, <1>11, <1>13, <1>17, <1>18, <1>19 DEF U, T, E, x

\* What the client of script s sends, and where each request of it ends.
Encoded(s) == [i \in 1 .. Len(s) |-> Encode(s[i], i)]
Sent(s) == FlattenSeq(Encoded(s))
Off(s) == Offsets(Encoded(s))

\* Where request k ends, its head, and the c-th chunk of its body; its body.
End(s, k) == Off(s)[k]
HeadEnd(s, k) == End(s, k - 1) + s[k].head
ChunkEnd(s, k, c) == HeadEnd(s, k) + PieceOff(s[k], k)[c]
DataEnd(s, k, c) == DataOff(s[k], k)[c]
Pay(s, k) == Payload(s[k], k)

\* The stream is the requests one after the other: where each of them is, and
\* that every unit belongs to one.
LEMMA SentShape ==
  ASSUME NEW s \in Seq(Requests)
  PROVE  /\ Len(s) \in Nat /\ Sent(s) \in Seq(UnitsOf(1 .. Len(s)))
         /\ End(s, 0) = 0 /\ Len(Sent(s)) = End(s, Len(s))
         /\ \A i \in 0 .. Len(s) : End(s, i) \in Nat
         /\ \A i, j \in 0 .. Len(s) : i <= j => End(s, i) <= End(s, j)
         /\ \A x \in 1 .. Len(Sent(s)) : \E k \in 1 .. Len(s) : End(s, k - 1) < x /\ x <= End(s, k)
         /\ \A k \in 1 .. Len(s) :
              /\ End(s, k) = End(s, k - 1) + Len(Encode(s[k], k))
              /\ \A j \in 1 .. Len(Encode(s[k], k)) : Sent(s)[End(s, k - 1) + j] = Encode(s[k], k)[j]
<1> DEFINE n == Len(s)
           w == Sent(s)
           o == Off(s)
           q == Encoded(s)
           U == UnitsOf(1 .. n)
<1>1. n \in Nat /\ \A i \in 1 .. n : s[i] \in Requests
  OBVIOUS
<1>2. \A i \in 1 .. n : q[i] = Encode(s[i], i) /\ Encode(s[i], i) \in Seq(U)
  BY <1>1, EncodeType DEF Encoded
<1>3. q = [i \in 1 .. n |-> q[i]]
  BY DEF Encoded
<1>4. w = FlattenSeq(q) /\ o = Offsets(q)
  BY DEF Sent, Off
<1>e. \A i : End(s, i) = o[i]
  BY DEF End
<1> HIDE DEF q, U, n, w, o
<1>5. q \in Seq(Seq(U)) /\ Len(q) = n
  BY <1>1, <1>2, <1>3
<1>6. o \in [0 .. n -> Nat] /\ Splits(o, q, w) /\ w \in Seq(U)
  BY <1>4, <1>5, FlattenSplits, FlattenType
<1>7. /\ o[0] = 0 /\ Len(w) = o[n]
      /\ \A i, j \in 0 .. n : i <= j => o[i] <= o[j]
      /\ \A x \in 1 .. Len(w) : \E k \in 1 .. n : o[k - 1] < x /\ x <= o[k]
      /\ \A k \in 1 .. n : o[k] = o[k - 1] + Len(q[k])
      /\ \A k \in 1 .. n : \A j \in 1 .. Len(q[k]) : w[o[k - 1] + j] = q[k][j]
  BY <1>5, <1>6 DEF Splits
<1>8. ASSUME NEW k \in 1 .. n
      PROVE  /\ o[k] = o[k - 1] + Len(Encode(s[k], k))
             /\ \A j \in 1 .. Len(Encode(s[k], k)) : w[o[k - 1] + j] = Encode(s[k], k)[j]
  <2>1. q[k] = Encode(s[k], k)
    BY <1>2
  <2>2. o[k] = o[k - 1] + Len(q[k]) /\ \A j \in 1 .. Len(q[k]) : w[o[k - 1] + j] = q[k][j]
    BY <1>7
  <2> QED BY <2>1, <2>2, Zenon
<1>9. \A i \in 0 .. n : o[i] \in Nat
  BY <1>6
<1>10. /\ End(s, 0) = 0 /\ Len(w) = End(s, n)
       /\ \A i \in 0 .. n : End(s, i) \in Nat
       /\ \A i, j \in 0 .. n : i <= j => End(s, i) <= End(s, j)
  BY <1>e, <1>7, <1>9
<1>11. \A x \in 1 .. Len(w) : \E k \in 1 .. n : End(s, k - 1) < x /\ x <= End(s, k)
  BY <1>e, <1>7
<1>12. ASSUME NEW k \in 1 .. n
      PROVE  /\ End(s, k) = End(s, k - 1) + Len(Encode(s[k], k))
             /\ \A j \in 1 .. Len(Encode(s[k], k)) : w[End(s, k - 1) + j] = Encode(s[k], k)[j]
  <2>1. End(s, k) = o[k] /\ End(s, k - 1) = o[k - 1]
    BY <1>e
  <2> QED BY <1>8, <2>1, Zenon
<1> QED BY <1>1, <1>6, <1>10, <1>11, <1>12 DEF U, n, w

\* The units of a request carry its number.
LEMMA EncodeNumber ==
  ASSUME NEW k, NEW r \in Requests
  PROVE  \A j \in 1 .. Len(Encode(r, k)) : Encode(r, k)[j][2] = k
<1> DEFINE E == Encode(r, k)
<1>1. PICK I : I = {k} /\ k \in I
  OBVIOUS
<1>2. E \in Seq(UnitsOf(I))
  BY <1>1, EncodeType
<1>3. \A j \in 1 .. Len(E) : E[j] \in UnitsOf(I)
  <2> HIDE DEF E
  <2> QED BY <1>2
<1> QED BY <1>1, <1>2, <1>3 DEF UnitsOf

\* EncodeHead, whatever the number of the request.
LEMMA EncodeHeadAt ==
  ASSUME NEW k, NEW r \in Requests
  PROVE  /\ Len(Encode(r, k)) \in Nat \ {0}
         /\ r.bad = "head" => Encode(r, k)[1] = Unit("bad", k, 1)
         /\ r.bad # "head" =>
              /\ r.head \in Nat \ {0} /\ r.head <= Len(Encode(r, k))
              /\ Encode(r, k)[r.head] = Unit("end", k, r.head)
              /\ \A j \in 1 .. r.head - 1 : Encode(r, k)[j] = Unit("head", k, j)
<1>1. PICK I : k \in I
  OBVIOUS
<1> QED BY <1>1, EncodeHead

\* Request k: it begins where the one before ends, with its head.
LEMMA Request ==
  ASSUME NEW s \in Seq(Requests), NEW k \in 1 .. Len(s)
  PROVE  /\ s[k] \in Requests /\ End(s, k - 1) \in Nat /\ End(s, k) \in Nat
         /\ End(s, k - 1) < End(s, k) /\ End(s, k) <= Len(Sent(s))
         /\ \A x \in End(s, k - 1) + 1 .. End(s, k) : Sent(s)[x][2] = k
         /\ s[k].bad = "head" => Sent(s)[End(s, k - 1) + 1] = Unit("bad", k, 1)
         /\ s[k].bad # "head" =>
              /\ s[k].head \in Nat \ {0} /\ HeadEnd(s, k) <= End(s, k) /\ HeadEnd(s, k) \in Nat
              /\ Sent(s)[HeadEnd(s, k)] = Unit("end", k, s[k].head)
              /\ \A j \in 1 .. s[k].head - 1 : Sent(s)[End(s, k - 1) + j] = Unit("head", k, j)
<1> DEFINE w == Sent(s)
           r == s[k]
           e == End(s, k - 1)
           f == End(s, k)
           E == Encode(r, k)
           n == Len(s)
<1>1. r \in Requests /\ n \in Nat
  OBVIOUS
<1>2. /\ Len(E) \in Nat \ {0}
      /\ r.bad = "head" => E[1] = Unit("bad", k, 1)
      /\ r.bad # "head" =>
           /\ r.head \in Nat \ {0} /\ r.head <= Len(E) /\ E[r.head] = Unit("end", k, r.head)
           /\ \A j \in 1 .. r.head - 1 : E[j] = Unit("head", k, j)
  BY <1>1, EncodeHeadAt, Zenon
<1>3. /\ \A i \in 0 .. n : End(s, i) \in Nat
      /\ Len(w) = End(s, n) /\ \A i, j \in 0 .. n : i <= j => End(s, i) <= End(s, j)
  BY SentShape
<1>a. f = e + Len(E) /\ \A j \in 1 .. Len(E) : w[e + j] = E[j]
  BY SentShape, Zenon
<1>4. k \in 0 .. n /\ k - 1 \in 0 .. n /\ n \in 0 .. n /\ k <= n
  BY <1>1
<1>5. \A j \in 1 .. Len(E) : E[j][2] = k
  BY <1>1, EncodeNumber, Zenon
<1>b. e \in Nat /\ f \in Nat /\ f <= Len(w)
  BY <1>3, <1>4
<1>h. HeadEnd(s, k) = e + r.head
  BY DEF HeadEnd
<1> HIDE DEF E, w, r, e, f
<1>6. PICK l \in Nat \ {0} : l = Len(E)
  BY <1>2
<1>7. f = e + l
  BY <1>a, <1>6
<1>8. \A j \in 1 .. l : w[e + j] = E[j]
  BY <1>a, <1>6
<1>9. ASSUME NEW x \in e + 1 .. f PROVE w[x][2] = k
  <2>1. x - e \in 1 .. l /\ e + (x - e) = x
    BY <1>b, <1>7
  <2> QED BY <1>5, <1>6, <1>8, <2>1
<1>10. e < f
  BY <1>b, <1>7
<1>11. ASSUME r.bad = "head" PROVE w[e + 1] = Unit("bad", k, 1)
  <2>1. 1 \in 1 .. l
    OBVIOUS
  <2> QED BY <1>2, <1>8, <1>11, <2>1
<1>12. ASSUME r.bad # "head"
       PROVE  /\ r.head \in Nat \ {0} /\ e + r.head <= f /\ e + r.head \in Nat
              /\ w[e + r.head] = Unit("end", k, r.head)
              /\ \A j \in 1 .. r.head - 1 : w[e + j] = Unit("head", k, j)
  <2>1. r.head \in 1 .. l /\ \A j \in 1 .. r.head - 1 : j \in 1 .. l
    BY <1>2, <1>6, <1>12
  <2>2. r.head \in Nat \ {0} /\ e + r.head <= f /\ e + r.head \in Nat
    BY <1>b, <1>2, <1>6, <1>7, <1>12
  <2>3. w[e + r.head] = Unit("end", k, r.head) /\ \A j \in 1 .. r.head - 1 : w[e + j] = Unit("head", k, j)
    BY <1>2, <1>8, <1>12, <2>1, Zenon
  <2> QED BY <2>2, <2>3
<1>13. r.bad # "head" =>
         /\ r.head \in Nat \ {0} /\ HeadEnd(s, k) <= f /\ HeadEnd(s, k) \in Nat
         /\ w[HeadEnd(s, k)] = Unit("end", k, r.head)
         /\ \A j \in 1 .. r.head - 1 : w[e + j] = Unit("head", k, j)
  BY <1>h, <1>12, Zenon
<1> QED BY <1>1, <1>b, <1>9, <1>10, <1>11, <1>13 DEF w, e, f, r

\* EncodePlain, whatever the number of the request.
LEMMA EncodePlainAt ==
  ASSUME NEW k, NEW r \in Requests, r.bad # "head", ~r.chunked
  PROVE  /\ Payload(r, k) \in Seq(UnitsOf({k})) /\ Len(Encode(r, k)) = r.head + Len(Payload(r, k))
         /\ \A j \in 1 .. Len(Payload(r, k)) :
              Encode(r, k)[r.head + j] = Payload(r, k)[j] /\ Payload(r, k)[j][1] = "data"
<1>1. PICK I : I = {k} /\ k \in I
  OBVIOUS
<1>2. /\ Payload(r, k) \in Seq(UnitsOf(I)) /\ Len(Encode(r, k)) = r.head + Len(Payload(r, k))
      /\ \A j \in 1 .. Len(Payload(r, k)) :
              Encode(r, k)[r.head + j] = Payload(r, k)[j] /\ Payload(r, k)[j][1] = "data"
  BY <1>1, EncodePlain
<1> QED BY <1>1, <1>2, Zenon

\* A body that is not chunked: in the stream it follows the head, up to the end
\* of the request.
LEMMA Plain ==
  ASSUME NEW s \in Seq(Requests), NEW k \in 1 .. Len(s), s[k].bad # "head", ~s[k].chunked
  PROVE  /\ Pay(s, k) \in Seq(UnitsOf({k})) /\ End(s, k) = HeadEnd(s, k) + Len(Pay(s, k))
         /\ \A j \in 1 .. Len(Pay(s, k)) :
              Sent(s)[HeadEnd(s, k) + j] = Pay(s, k)[j] /\ Pay(s, k)[j][1] = "data"
<1> DEFINE r == s[k]
           E == Encode(r, k)
           p == Pay(s, k)
           w == Sent(s)
           e == End(s, k - 1)
<1>1. r \in Requests /\ e \in Nat /\ r.head \in Nat
  BY Request
<1>2. /\ p \in Seq(UnitsOf({k})) /\ Len(E) = r.head + Len(p)
      /\ \A j \in 1 .. Len(p) : E[r.head + j] = p[j] /\ p[j][1] = "data"
  BY <1>1, EncodePlainAt, Zenon DEF Pay
<1>3. End(s, k) = e + Len(E) /\ \A j \in 1 .. Len(E) : w[e + j] = E[j]
  BY SentShape
<1>4. HeadEnd(s, k) = e + r.head
  BY DEF HeadEnd
<1> HIDE DEF E, e, r, w, p
<1>5. PICK l \in Nat : l = Len(p)
  BY <1>2
<1>6. PICK h \in Nat : h = e + r.head
  BY <1>1
<1>7. \A j \in 1 .. l : E[r.head + j] = p[j] /\ p[j][1] = "data"
  BY <1>2, <1>5
<1>8. Len(E) = r.head + l
  BY <1>2, <1>5
<1>9. \A j \in 1 .. r.head + l : w[e + j] = E[j]
  BY <1>3, <1>8
<1>10. ASSUME NEW j \in 1 .. l PROVE w[h + j] = p[j] /\ p[j][1] = "data"
  <2>1. r.head + j \in 1 .. r.head + l /\ e + (r.head + j) = h + j
    BY <1>1, <1>6
  <2>2. w[e + (r.head + j)] = E[r.head + j]
    BY <1>9, <2>1
  <2> QED BY <1>7, <2>1, <2>2
<1>11. End(s, k) = h + l
  BY <1>1, <1>3, <1>6, <1>8
<1>12. HeadEnd(s, k) = h
  BY <1>4, <1>6
<1> QED BY <1>2, <1>5, <1>10, <1>11, <1>12 DEF p, w

\* EncodeChunked, whatever the number of the request.
LEMMA EncodeChunkedAt ==
  ASSUME NEW k, NEW r \in Requests, r.chunked, r.bad # "head"
  PROVE  LET E == Encode(r, k)
             x == FlattenSeq(ChunkPieces(r, k))
         IN
         /\ x \in Seq(UnitsOf({k})) /\ r.trailers \in Nat /\ r.head \in Nat
         /\ Len(E) = r.head + Len(x) + 2 * r.trailers + 3
         /\ \A j \in 1 .. Len(x) : E[r.head + j] = x[j]
         /\ E[r.head + Len(x) + 1] = Unit("size", k, 0)
         /\ E[r.head + Len(x) + 2] = Unit("nl", k, 0)
         /\ \A t \in 1 .. r.trailers :
              /\ E[r.head + Len(x) + 2 * t + 1] = Unit("trailer", k, t)
              /\ E[r.head + Len(x) + 2 * t + 2] = Unit("nl", k, 0)
         /\ E[Len(E)] = Unit("nl", k, 0)
<1>1. PICK I : I = {k} /\ k \in I
  OBVIOUS
<1> QED BY <1>1, EncodeChunked, Zenon

\* A body is units of its request.
LEMMA PayloadAt ==
  ASSUME NEW k, NEW r \in Requests
  PROVE  Payload(r, k) \in Seq(UnitsOf({k}))
<1>1. PICK I : I = {k} /\ k \in I
  OBVIOUS
<1>2. Payload(r, k) \in Seq(UnitsOf(I))
  BY <1>1, EncodeType
<1> QED BY <1>1, <1>2

\* Chunk c: its line, its data, the end of it.
ChunkAt(s, k, c) ==
  /\ s[k].chunks[c] \in Nat \ {0}
  /\ ChunkEnd(s, k, c) = ChunkEnd(s, k, c - 1) + s[k].chunks[c] + 3
  /\ DataEnd(s, k, c) = DataEnd(s, k, c - 1) + s[k].chunks[c]
  /\ Sent(s)[ChunkEnd(s, k, c - 1) + 1] \in {Unit("junk", k, 0), Unit("size", k, s[k].chunks[c])}
  /\ Sent(s)[ChunkEnd(s, k, c - 1) + 2] = Unit("nl", k, 0)
  /\ Sent(s)[ChunkEnd(s, k, c)] = Unit("nl", k, 0)
  /\ \A j \in 1 .. s[k].chunks[c] :
       Sent(s)[ChunkEnd(s, k, c - 1) + 2 + j] = Pay(s, k)[DataEnd(s, k, c - 1) + j]

\* A chunked body in the stream: where its chunks are, the size 0 after them,
\* the trailers and the empty line that ends the request.
LEMMA ChunkedBody ==
  ASSUME NEW s \in Seq(Requests), NEW k \in 1 .. Len(s), s[k].bad # "head", s[k].chunked
  PROVE  LET m == Len(s[k].chunks)
             w == Sent(s)
             f == ChunkEnd(s, k, m)
         IN
         /\ m \in Nat /\ Pay(s, k) \in Seq(UnitsOf({k})) /\ s[k].trailers \in Nat
         /\ \A c \in 0 .. m : ChunkEnd(s, k, c) \in Nat /\ DataEnd(s, k, c) \in Nat /\ DataEnd(s, k, c) <= Len(Pay(s, k))
         /\ ChunkEnd(s, k, 0) = HeadEnd(s, k) /\ DataEnd(s, k, 0) = 0
         /\ DataEnd(s, k, m) = Len(Pay(s, k)) /\ End(s, k) = f + 2 * s[k].trailers + 3
         /\ w[f + 1] = Unit("size", k, 0) /\ w[f + 2] = Unit("nl", k, 0)
         /\ \A t \in 1 .. s[k].trailers : /\ w[f + 2 * t + 1] = Unit("trailer", k, t)
                                          /\ w[f + 2 * t + 2] = Unit("nl", k, 0)
         /\ w[End(s, k)] = Unit("nl", k, 0)
         /\ \A c \in 1 .. m : ChunkAt(s, k, c)
<1> DEFINE r == s[k]
           E == Encode(r, k)
           w == Sent(s)
           e == End(s, k - 1)
           h == HeadEnd(s, k)
           x == FlattenSeq(ChunkPieces(r, k))
           U == UnitsOf({k})
           m == Len(r.chunks)
           C == PieceOff(r, k)
           D == DataOff(r, k)
           pay == Pay(s, k)
           T == r.trailers
           f == ChunkEnd(s, k, m)
           q == r.head
<1>1. r \in Requests /\ e \in Nat /\ q \in Nat
  BY Request
<1>2. /\ x \in Seq(U) /\ T \in Nat
      /\ Len(E) = q + Len(x) + 2 * T + 3
      /\ \A j \in 1 .. Len(x) : E[q + j] = x[j]
      /\ E[q + Len(x) + 1] = Unit("size", k, 0)
      /\ E[q + Len(x) + 2] = Unit("nl", k, 0)
      /\ \A t \in 1 .. T : /\ E[q + Len(x) + 2 * t + 1] = Unit("trailer", k, t)
                           /\ E[q + Len(x) + 2 * t + 2] = Unit("nl", k, 0)
      /\ E[Len(E)] = Unit("nl", k, 0)
  BY <1>1, EncodeChunkedAt, Zenon
<1>3. End(s, k) = e + Len(E) /\ \A j \in 1 .. Len(E) : w[e + j] = E[j]
  BY SentShape
<1>4. /\ m \in Nat /\ C \in [0 .. m -> Nat] /\ D \in [0 .. m -> Nat]
      /\ C[0] = 0 /\ D[0] = 0 /\ C[m] = Len(x) /\ D[m] = Len(pay)
      /\ \A c \in 0 .. m : C[c] <= C[m] /\ D[c] <= D[m]
      /\ \A c \in 1 .. m :
           /\ r.chunks[c] \in Nat \ {0}
           /\ C[c] = C[c - 1] + r.chunks[c] + 3 /\ D[c] = D[c - 1] + r.chunks[c]
           /\ x[C[c - 1] + 1] = IF r.bad = "size" THEN Unit("junk", k, 0)
                                ELSE Unit("size", k, r.chunks[c])
           /\ x[C[c - 1] + 2] = Unit("nl", k, 0) /\ x[C[c]] = Unit("nl", k, 0)
           /\ \A j \in 1 .. r.chunks[c] : x[C[c - 1] + 2 + j] = pay[D[c - 1] + j]
  <2>1. ChunkFacts(r, k)
    BY <1>1, ChunkFactsHold, Zenon
  <2> QED BY <2>1 DEF ChunkFacts, Pay
<1>p. pay \in Seq(U)
  BY <1>1, PayloadAt, Zenon DEF Pay
<1>c. h = e + q /\ \A c \in 0 .. m : ChunkEnd(s, k, c) = h + C[c] /\ DataEnd(s, k, c) = D[c]
  BY DEF HeadEnd, ChunkEnd, DataEnd
<1>d. m \in 0 .. m /\ 0 \in 0 .. m
  BY <1>4
<1> HIDE DEF E, e, x, U, r, w, h, m, C, D, pay, T, f, q
<1>5. PICK l \in Nat : l = Len(x)
  BY <1>2
<1>6. PICK t2 \in Nat : t2 = 2 * T
  BY <1>2
<1>7. /\ f = h + l /\ h \in Nat /\ f \in Nat /\ Len(E) = q + l + t2 + 3 /\ End(s, k) = f + t2 + 3
  <2>1. h \in Nat
    BY <1>1, <1>c
  <2>2. f = h + l /\ f \in Nat
    BY <1>4, <1>5, <1>c, <1>d, <2>1 DEF f
  <2>3. Len(E) = q + l + t2 + 3
    BY <1>2, <1>5, <1>6
  <2>4. End(s, k) = e + (q + l + t2 + 3)
    BY <1>3, <2>3
  <2>5. End(s, k) = f + t2 + 3
    BY <1>1, <1>c, <2>2, <2>4
  <2> QED BY <2>1, <2>2, <2>3, <2>5
<1>8. \A j \in 1 .. q + l + t2 + 3 : w[e + j] = E[j]
  BY <1>3, <1>7
<1>9. \A j \in 1 .. l + t2 + 3 : w[h + j] = E[q + j]
  <2> TAKE j \in 1 .. l + t2 + 3
  <2>1. q + j \in 1 .. q + l + t2 + 3 /\ e + (q + j) = h + j
    BY <1>1, <1>c
  <2> QED BY <1>8, <2>1
<1>10. \A j \in 1 .. l : w[h + j] = x[j]
  <2> TAKE j \in 1 .. l
  <2>1. j \in 1 .. l + t2 + 3 /\ j \in 1 .. Len(x)
    BY <1>5
  <2> QED BY <1>2, <1>9, <2>1
<1>11. w[f + 1] = Unit("size", k, 0) /\ w[f + 2] = Unit("nl", k, 0)
  <2>1. /\ l + 1 \in 1 .. l + t2 + 3 /\ l + 2 \in 1 .. l + t2 + 3
        /\ h + (l + 1) = f + 1 /\ h + (l + 2) = f + 2
        /\ q + (l + 1) = q + l + 1 /\ q + (l + 2) = q + l + 2
    <3>1. q \in Nat /\ h \in Nat /\ f = h + l
      BY <1>1, <1>7
    <3> QED BY <3>1
  <2>2. E[q + l + 1] = Unit("size", k, 0) /\ E[q + l + 2] = Unit("nl", k, 0)
    BY <1>2, <1>5
  <2> QED BY <1>9, <2>1, <2>2
<1>12. ASSUME NEW t \in 1 .. T
       PROVE  w[f + 2 * t + 1] = Unit("trailer", k, t) /\ w[f + 2 * t + 2] = Unit("nl", k, 0)
  <2>1. /\ l + 2 * t + 1 \in 1 .. l + t2 + 3 /\ l + 2 * t + 2 \in 1 .. l + t2 + 3
        /\ h + (l + 2 * t + 1) = f + 2 * t + 1 /\ h + (l + 2 * t + 2) = f + 2 * t + 2
        /\ q + (l + 2 * t + 1) = q + l + 2 * t + 1
        /\ q + (l + 2 * t + 2) = q + l + 2 * t + 2
    BY <1>1, <1>2, <1>6, <1>7
  <2>2. /\ w[h + (l + 2 * t + 1)] = E[q + (l + 2 * t + 1)]
        /\ w[h + (l + 2 * t + 2)] = E[q + (l + 2 * t + 2)]
    BY <1>9, <2>1
  <2>3. E[q + l + 2 * t + 1] = Unit("trailer", k, t) /\ E[q + l + 2 * t + 2] = Unit("nl", k, 0)
    BY <1>2, <1>5
  <2> QED BY <2>1, <2>2, <2>3
<1>13. w[End(s, k)] = Unit("nl", k, 0)
  <2>1. l + t2 + 3 \in 1 .. l + t2 + 3
    OBVIOUS
  <2>2. h + (l + t2 + 3) = (h + l) + t2 + 3 /\ q + (l + t2 + 3) = q + l + t2 + 3
    <3>1. q \in Nat /\ h \in Nat
      BY <1>1, <1>7
    <3> QED BY <3>1
  <2>3. h + (l + t2 + 3) = End(s, k) /\ q + (l + t2 + 3) = Len(E)
    BY <1>7, <2>2
  <2> QED BY <1>2, <1>9, <2>1, <2>3
<1>14. ASSUME NEW c \in 1 .. m
       PROVE  /\ r.chunks[c] \in Nat \ {0}
              /\ ChunkEnd(s, k, c) = ChunkEnd(s, k, c - 1) + r.chunks[c] + 3
              /\ DataEnd(s, k, c) = DataEnd(s, k, c - 1) + r.chunks[c]
              /\ w[ChunkEnd(s, k, c - 1) + 1] \in {Unit("junk", k, 0), Unit("size", k, r.chunks[c])}
              /\ w[ChunkEnd(s, k, c - 1) + 2] = Unit("nl", k, 0)
              /\ w[ChunkEnd(s, k, c)] = Unit("nl", k, 0)
              /\ \A j \in 1 .. r.chunks[c] :
                   w[ChunkEnd(s, k, c - 1) + 2 + j] = pay[DataEnd(s, k, c - 1) + j]
  <2>0. c - 1 \in 0 .. m /\ c \in 0 .. m
    BY <1>4
  <2>1. PICK a \in Nat : a = C[c - 1]
    BY <1>4, <2>0
  <2>2. PICK d \in Nat \ {0} : d = r.chunks[c]
    BY <1>4
  <2>b. PICK b \in Nat : b = D[c - 1]
    BY <1>4, <2>0
  <2>3. /\ C[c] = C[c - 1] + r.chunks[c] + 3 /\ D[c] = D[c - 1] + r.chunks[c]
        /\ x[C[c - 1] + 1] = IF r.bad = "size" THEN Unit("junk", k, 0)
                              ELSE Unit("size", k, r.chunks[c])
        /\ x[C[c - 1] + 2] = Unit("nl", k, 0) /\ x[C[c]] = Unit("nl", k, 0)
        /\ \A j \in 1 .. r.chunks[c] : x[C[c - 1] + 2 + j] = pay[D[c - 1] + j]
    BY <1>4
  <2>4. C[c] = a + d + 3 /\ D[c] = b + d /\ C[c] <= l
    BY <1>4, <1>5, <2>0, <2>1, <2>2, <2>b, <2>3
  <2>5. /\ x[a + 1] \in {Unit("junk", k, 0), Unit("size", k, d)}
        /\ x[a + 2] = Unit("nl", k, 0) /\ x[a + d + 3] = Unit("nl", k, 0)
    BY <2>1, <2>2, <2>3, <2>4
  <2>6. \A j \in 1 .. d : x[a + 2 + j] = pay[b + j]
    BY <2>1, <2>2, <2>b, <2>3
  <2>7. PICK g \in Nat : g = h + a
    BY <1>7
  <2>8. ChunkEnd(s, k, c - 1) = g /\ ChunkEnd(s, k, c) = g + d + 3 /\ DataEnd(s, k, c - 1) = b /\ DataEnd(s, k, c) = b + d
    <3>1. /\ ChunkEnd(s, k, c - 1) = h + C[c - 1] /\ DataEnd(s, k, c - 1) = D[c - 1]
          /\ ChunkEnd(s, k, c) = h + C[c] /\ DataEnd(s, k, c) = D[c]
      BY <1>c, <2>0
    <3>2. h + (a + d + 3) = g + d + 3
      BY <1>7, <2>7
    <3> QED BY <2>1, <2>b, <2>4, <2>7, <3>1, <3>2
  <2>9. /\ a + 1 \in 1 .. l /\ a + 2 \in 1 .. l /\ a + d + 3 \in 1 .. l
        /\ h + (a + 1) = g + 1 /\ h + (a + 2) = g + 2 /\ h + (a + d + 3) = g + d + 3
    BY <1>7, <2>4, <2>7
  <2>10. w[g + 1] = x[a + 1] /\ w[g + 2] = x[a + 2] /\ w[g + d + 3] = x[a + d + 3]
    BY <1>10, <2>9
  <2>11. ASSUME NEW j \in 1 .. d PROVE w[g + 2 + j] = pay[b + j]
    <3>1. a + 2 + j \in 1 .. l /\ h + (a + 2 + j) = g + 2 + j
      BY <1>7, <2>4, <2>7
    <3> QED BY <1>10, <2>6, <3>1
  <2>12. /\ w[g + 1] \in {Unit("junk", k, 0), Unit("size", k, d)}
         /\ w[g + 2] = Unit("nl", k, 0) /\ w[g + d + 3] = Unit("nl", k, 0)
    BY <2>5, <2>10
  <2> QED BY <2>2, <2>8, <2>11, <2>12
<1>15. \A c \in 0 .. m : ChunkEnd(s, k, c) \in Nat /\ DataEnd(s, k, c) \in Nat /\ DataEnd(s, k, c) <= Len(pay)
  <2> TAKE c \in 0 .. m
  <2>1. C[c] \in Nat /\ D[c] \in Nat /\ D[c] <= D[m] /\ D[m] = Len(pay)
    BY <1>4
  <2>2. ChunkEnd(s, k, c) = h + C[c] /\ DataEnd(s, k, c) = D[c]
    BY <1>c
  <2> QED BY <1>7, <2>1, <2>2, SMTT(30)
<1>16. ChunkEnd(s, k, 0) = h /\ DataEnd(s, k, 0) = 0 /\ DataEnd(s, k, m) = Len(pay)
  BY <1>4, <1>7, <1>c, <1>d
<1>17. End(s, k) = f + 2 * T + 3
  BY <1>6, <1>7
<1>18. ASSUME NEW c \in 1 .. m PROVE ChunkAt(s, k, c)
  BY <1>14, Zenon DEF ChunkAt, w, pay, r
<1> QED BY <1>2, <1>4, <1>p, <1>11, <1>12, <1>13, <1>18, <1>15, <1>16, <1>17, Zenon DEF U, w, f, h, m, r, pay, T

(***************************************************************************)
(* Pieces of the stream, and what the searches find in them.               *)
(***************************************************************************)

\* q is what w has from a + 1 on.
Window(w, q, a) ==
  a \in Nat /\ a + Len(q) <= Len(w) /\ \A j \in 1 .. Len(q) : q[j] = w[a + j]

\* A piece of the stream cut in two is two pieces of it.
LEMMA WindowCut ==
  ASSUME NEW U, NEW w, NEW q \in Seq(U), NEW a, NEW n \in 0 .. Len(q), Window(w, q, a), Len(w) \in Nat
  PROVE  /\ Window(w, Take(q, n), a) /\ Len(Take(q, n)) = n
         /\ Window(w, Drop(q, n), a + n) /\ Len(Drop(q, n)) = Len(q) - n
         /\ \A j \in 1 .. n : Take(q, n)[j] = w[a + j]
<1> DEFINE t == Take(q, n)
           d == Drop(q, n)
<1>1. Len(q) \in Nat
  OBVIOUS
<1>2. Len(t) = n /\ \A j \in 1 .. n : t[j] = q[j]
  BY <1>1 DEF Take
<1>3. Len(d) = Len(q) - n /\ \A j \in 1 .. Len(q) - n : d[j] = q[n + j]
  BY <1>1 DEF Drop
<1> HIDE DEF t, d
<1>4. PICK l \in Nat : l = Len(q)
  BY <1>1
<1>5. a \in Nat /\ a + l <= Len(w) /\ \A j \in 1 .. l : q[j] = w[a + j]
  BY <1>4 DEF Window
<1>6. \A j \in 1 .. n : t[j] = w[a + j]
  BY <1>2, <1>4, <1>5
<1>7. Window(w, t, a)
  BY <1>2, <1>4, <1>5, <1>6 DEF Window
<1>8. \A j \in 1 .. l - n : d[j] = w[(a + n) + j]
  <2> TAKE j \in 1 .. l - n
  <2>1. n + j \in 1 .. l /\ a + (n + j) = (a + n) + j
    BY <1>4, <1>5
  <2>2. d[j] = q[n + j]
    BY <1>3, <1>4
  <2>3. q[n + j] = w[a + (n + j)]
    BY <1>5, <2>1
  <2> QED BY <2>1, <2>2, <2>3
<1>9. Window(w, d, a + n)
  <2>1. Len(d) = l - n /\ a + n \in Nat /\ (a + n) + (l - n) <= Len(w)
    BY <1>3, <1>4, <1>5
  <2> QED BY <1>8, <2>1 DEF Window
<1> QED BY <1>2, <1>3, <1>6, <1>7, <1>9 DEF t, d

\* Two pieces of the stream, one after the other, are one.
LEMMA WindowJoin ==
  ASSUME NEW U, NEW w, NEW q \in Seq(U), NEW t \in Seq(U), NEW a, Len(w) \in Nat,
         Window(w, q, a), Window(w, t, a + Len(q))
  PROVE  Window(w, q \o t, a) /\ Len(q \o t) = Len(q) + Len(t)
<1> DEFINE y == q \o t
<1>1. /\ Len(y) = Len(q) + Len(t) /\ Len(q) \in Nat /\ Len(t) \in Nat
      /\ \A j \in 1 .. Len(q) : y[j] = q[j]
      /\ \A j \in 1 .. Len(t) : y[Len(q) + j] = t[j]
  BY JoinedParts
<1> HIDE DEF y
<1>2. PICK l \in Nat : l = Len(q)
  BY <1>1
<1>3. PICK m \in Nat : m = Len(t)
  BY <1>1
<1>4. a \in Nat /\ \A j \in 1 .. l : q[j] = w[a + j]
  BY <1>2 DEF Window
<1>5. (a + l) + m <= Len(w) /\ \A j \in 1 .. m : t[j] = w[(a + l) + j]
  BY <1>2, <1>3 DEF Window
<1>6. Len(y) = l + m /\ (\A j \in 1 .. l : y[j] = q[j]) /\ \A j \in 1 .. m : y[l + j] = t[j]
  BY <1>1, <1>2, <1>3
<1>7. ASSUME NEW j \in 1 .. l + m PROVE y[j] = w[a + j]
  <2>1. CASE j <= l
    BY <1>4, <1>6, <2>1
  <2>2. CASE j > l
    <3>1. j - l \in 1 .. m /\ l + (j - l) = j /\ (a + l) + (j - l) = a + j
      BY <1>4, <2>2
    <3> QED BY <1>5, <1>6, <3>1
  <2> QED BY <2>1, <2>2
<1>8. a + (l + m) <= Len(w)
  BY <1>4, <1>5
<1>9. Window(w, y, a)
  BY <1>4, <1>6, <1>7, <1>8 DEF Window
<1> QED BY <1>1, <1>9 DEF y

\* What SelectInSeq finds is the first.
LEMMA SelectedFirst ==
  ASSUME NEW n \in Nat, NEW I, I \subseteq 1 .. n, NEW z, z = IF I # {} THEN Min(I) ELSE 0
  PROVE  /\ z \in 0 .. n /\ (z = 0 <=> I = {})
         /\ z # 0 => z \in I /\ \A i \in I : z <= i
<1>1. I \subseteq Nat
  OBVIOUS
<1>2. I # {} => Min(I) \in I /\ \A x \in I : Min(I) <= x
  BY <1>1, LeastOf
<1>3. CASE I = {}
  BY <1>3
<1>4. CASE I # {}
  <2>1. z = Min(I) /\ z \in I /\ \A x \in I : z <= x
    BY <1>2, <1>4
  <2>2. z \in 1 .. n
    BY <2>1
  <2> QED BY <1>4, <2>1, <2>2
<1> QED BY <1>3, <1>4

\* Blank is the first unit of the buffer that is not an empty line, which is
\* where httparse begins.
LEMMA BlankIs ==
  ASSUME NEW U, NEW b \in Seq(U), NEW z, z = Blank(b)
  PROVE  /\ z \in 0 .. Len(b) /\ Len(b) \in Nat
         /\ z = 0 => \A i \in 1 .. Len(b) : b[i][1] = "nl"
         /\ z # 0 => b[z][1] # "nl" /\ \A i \in 1 .. z - 1 : b[i][1] = "nl"
<1> DEFINE I == {i \in 1 .. Len(b) : b[i][1] # "nl"}
<1>1. Len(b) \in Nat /\ z = IF I # {} THEN Min(I) ELSE 0
  BY DEF Blank, SelectInSeq
<1>2. I \subseteq 1 .. Len(b)
  OBVIOUS
<1>3. /\ z \in 0 .. Len(b) /\ (z = 0 <=> I = {})
      /\ z # 0 => z \in I /\ \A i \in I : z <= i
  <2> HIDE DEF I
  <2> QED BY <1>1, <1>2, SelectedFirst
<1>4. ASSUME z # 0 PROVE \A i \in 1 .. z - 1 : b[i][1] = "nl"
  <2> TAKE i \in 1 .. z - 1
  <2>1. i \in 1 .. Len(b) /\ ~(z <= i)
    BY <1>1, <1>3, SMTT(30)
  <2> QED BY <1>3, <1>4, <2>1
<1> QED BY <1>1, <1>3, <1>4

\* EndOfHead is the first end of a head that the buffer holds.
LEMMA HeadEndIs ==
  ASSUME NEW U, NEW b \in Seq(U), NEW z, z = EndOfHead(b)
  PROVE  /\ z \in 0 .. Len(b) /\ Len(b) \in Nat
         /\ z = 0 => \A i \in 1 .. Len(b) : b[i][1] # "end"
         /\ z # 0 => b[z][1] = "end" /\ \A i \in 1 .. z - 1 : b[i][1] # "end"
<1> DEFINE I == {i \in 1 .. Len(b) : b[i][1] = "end"}
<1>1. Len(b) \in Nat /\ z = IF I # {} THEN Min(I) ELSE 0
  BY DEF EndOfHead, SelectInSeq
<1>2. I \subseteq 1 .. Len(b)
  OBVIOUS
<1>3. /\ z \in 0 .. Len(b) /\ (z = 0 <=> I = {})
      /\ z # 0 => z \in I /\ \A i \in I : z <= i
  <2> HIDE DEF I
  <2> QED BY <1>1, <1>2, SelectedFirst
<1>4. ASSUME z # 0 PROVE \A i \in 1 .. z - 1 : b[i][1] # "end"
  <2> TAKE i \in 1 .. z - 1
  <2>1. i \in 1 .. Len(b) /\ ~(z <= i)
    BY <1>1, <1>3
  <2> QED BY <1>3, <1>4, <2>1
<1> QED BY <1>1, <1>3, <1>4

\* LineEnd is the first end of line that the buffer holds.
LEMMA LineEndIs ==
  ASSUME NEW U, buf \in Seq(U), NEW z, z = LineEnd
  PROVE  /\ z \in 0 .. Len(buf) /\ Len(buf) \in Nat
         /\ z = 0 => \A i \in 1 .. Len(buf) : buf[i][1] # "nl"
         /\ z # 0 => buf[z][1] = "nl" /\ \A i \in 1 .. z - 1 : buf[i][1] # "nl"
<1> DEFINE I == {i \in 1 .. Len(buf) : buf[i][1] = "nl"}
<1>1. Len(buf) \in Nat /\ z = IF I # {} THEN Min(I) ELSE 0
  BY DEF LineEnd, SelectInSeq
<1>2. I \subseteq 1 .. Len(buf)
  OBVIOUS
<1>3. /\ z \in 0 .. Len(buf) /\ (z = 0 <=> I = {})
      /\ z # 0 => z \in I /\ \A i \in I : z <= i
  <2> HIDE DEF I
  <2> QED BY <1>1, <1>2, SelectedFirst
<1>4. ASSUME z # 0 PROVE \A i \in 1 .. z - 1 : buf[i][1] # "nl"
  <2> TAKE i \in 1 .. z - 1
  <2>1. i \in 1 .. Len(buf) /\ ~(z <= i)
    BY <1>1, <1>3
  <2> QED BY <1>3, <1>4, <2>1
<1> QED BY <1>1, <1>3, <1>4

\* The most empty lines that the trailers of request k may leave.
Blanks(s, k) == IF k = 0 THEN 0 ELSE Least(s[k].trailers, 2)

\* What the x-th unit of the stream is.
Kind(s, x) == Sent(s)[x][1]

\* Request k is read: from p on there is at most what its trailers left, or a body
\* nobody announced, with no more than Blanks empty lines together.
Done(s, p, k) ==
  /\ k \in 0 .. Len(s) /\ p \in Nat /\ p <= End(s, k)
  /\ \A x \in p + 1 .. End(s, k) : Kind(s, x) \in {"nl", "trailer", "data"}
  /\ \A q, x \in Nat : p <= q /\ q <= x /\ x <= End(s, k) /\ (\A z \in q + 1 .. x : Kind(s, z) = "nl")
                       => x - q <= Blanks(s, k)

\* At most two empty lines are left before the next request.
LEMMA BlanksType ==
  ASSUME NEW s \in Seq(Requests), NEW k \in 0 .. Len(s)
  PROVE  Blanks(s, k) \in 0 .. 2
<1>1. CASE k = 0
  BY <1>1 DEF Blanks
<1>2. CASE k # 0
  <2>1. k \in 1 .. Len(s)
    BY <1>2
  <2>2. s[k] \in Requests
    BY <2>1
  <2>3. s[k].trailers \in Nat
    BY <2>2 DEF Requests
  <2> QED BY <1>2, <2>3 DEF Blanks, Least
<1> QED BY <1>1, <1>2

\* A request that is read at p is read at every later place up to its end.
LEMMA DoneLater ==
  ASSUME NEW s, NEW p, NEW k, Done(s, p, k), NEW q \in Nat, p <= q, q <= End(s, k), End(s, k) \in Nat
  PROVE  Done(s, q, k)
  BY DEF Done

\* A request is read at its end.
LEMMA DoneEnd ==
  ASSUME NEW s \in Seq(Requests), NEW k \in 0 .. Len(s)
  PROVE  Done(s, End(s, k), k)
<1>1. End(s, k) \in Nat
  BY SentShape
<1>2. Blanks(s, k) \in 0 .. 2
  BY BlanksType
<1> HIDE DEF Blanks
<1> QED BY <1>1, <1>2 DEF Done

\* A body without Content-Length is left in the stream.
LEMMA DonePlain ==
  ASSUME NEW s \in Seq(Requests), NEW k \in 1 .. Len(s), s[k].bad # "head", ~s[k].chunked
  PROVE  Done(s, HeadEnd(s, k), k)
<1> DEFINE h == HeadEnd(s, k)
           f == End(s, k)
           p == Pay(s, k)
<1>1. h \in Nat /\ f \in Nat /\ h <= f
  BY Request
<1>2. /\ p \in Seq(UnitsOf({k})) /\ f = h + Len(p)
      /\ \A j \in 1 .. Len(p) : Sent(s)[h + j] = p[j] /\ p[j][1] = "data"
  BY Plain
<1>3. k \in 0 .. Len(s) /\ Blanks(s, k) \in 0 .. 2
  BY BlanksType
<1> HIDE DEF h, f, p
<1>4. PICK l \in Nat : l = Len(p)
  BY <1>2
<1>5. f = h + l /\ \A j \in 1 .. l : Sent(s)[h + j][1] = "data"
  BY <1>2, <1>4
<1>6. ASSUME NEW x \in h + 1 .. f PROVE Kind(s, x) = "data"
  <2>1. x - h \in 1 .. l /\ h + (x - h) = x
    BY <1>1, <1>5
  <2> QED BY <1>5, <2>1 DEF Kind
<1>7. ASSUME NEW q \in Nat, NEW x \in Nat, h <= q, q <= x, x <= f, \A z \in q + 1 .. x : Kind(s, z) = "nl"
      PROVE  x - q <= Blanks(s, k)
  <2>1. CASE q = x
    BY <1>3, <2>1
  <2>2. CASE q # x
    <3>1. q + 1 \in q + 1 .. x /\ q + 1 \in h + 1 .. f
      BY <1>1, <1>7, <2>2
    <3> QED BY <1>6, <1>7, <3>1
  <2> QED BY <2>1, <2>2
<1> QED BY <1>1, <1>3, <1>6, <1>7 DEF Done, h, f

\* Lines of trailers: a name and its end by turns, after f + 2.
LEMMA OddEven ==
  ASSUME NEW y \in Nat, y >= 3, NEW T \in Nat, y <= 2 * T + 2
  PROVE  \E t \in 1 .. T : y = 2 * t + 1 \/ y = 2 * t + 2
<1>1. PICK z \in Nat : z = y - 1
  OBVIOUS
<1>2. z \div 2 \in Nat /\ (z = 2 * (z \div 2) \/ z = 2 * (z \div 2) + 1)
  OBVIOUS
<1>3. PICK t \in Nat : z = 2 * t \/ z = 2 * t + 1
  BY <1>2
<1>4. t \in 1 .. T
  BY <1>1, <1>3
<1> QED BY <1>1, <1>3, <1>4

\* Where the trailers of request k are: f is the end of its chunks.
TrailersAt(s, k, f, T) ==
  /\ f \in Nat /\ T \in Nat /\ T = s[k].trailers
  /\ f = ChunkEnd(s, k, Len(s[k].chunks))
  /\ End(s, k) = f + 2 * T + 3
  /\ \A t \in 1 .. T : Kind(s, f + 2 * t + 1) = "trailer" /\ Kind(s, f + 2 * t + 2) = "nl"
  /\ Kind(s, End(s, k)) = "nl"

\* The trailers are where the layout of the stream has them.
LEMMA TrailersHold ==
  ASSUME NEW s \in Seq(Requests), NEW k \in 1 .. Len(s), s[k].bad # "head", s[k].chunked
  PROVE  \E f, T \in Nat : TrailersAt(s, k, f, T)
<1> DEFINE m == Len(s[k].chunks)
           f == ChunkEnd(s, k, m)
           T == s[k].trailers
<1>1. /\ m \in Nat /\ T \in Nat
      /\ \A c \in 0 .. m : ChunkEnd(s, k, c) \in Nat /\ DataEnd(s, k, c) \in Nat /\ DataEnd(s, k, c) <= Len(Pay(s, k))
      /\ End(s, k) = f + 2 * T + 3
      /\ \A t \in 1 .. T : /\ Sent(s)[f + 2 * t + 1] = Unit("trailer", k, t)
                           /\ Sent(s)[f + 2 * t + 2] = Unit("nl", k, 0)
      /\ Sent(s)[End(s, k)] = Unit("nl", k, 0)
  BY ChunkedBody, Zenon
<1>2. f \in Nat
  <2>1. m \in 0 .. m
    BY <1>1
  <2> QED BY <1>1, <2>1
<1>3. \A t \in 1 .. T : Kind(s, f + 2 * t + 1) = "trailer" /\ Kind(s, f + 2 * t + 2) = "nl"
  BY <1>1 DEF Kind, Unit
<1>4. Kind(s, End(s, k)) = "nl"
  BY <1>1 DEF Kind, Unit
<1> QED BY <1>1, <1>2, <1>3, <1>4, Zenon DEF TrailersAt

\* The first line after the last chunk ends the request, or is its first trailer.
LEMMA DoneChunked ==
  ASSUME NEW s \in Seq(Requests), NEW k \in 1 .. Len(s), NEW f \in Nat, NEW T \in Nat,
         TrailersAt(s, k, f, T)
  PROVE  Done(s, IF T = 0 THEN f + 3 ELSE f + 4, k)
<1> DEFINE p == IF T = 0 THEN f + 3 ELSE f + 4
<1>1. PICK e \in Nat : e = End(s, k) /\ e = f + 2 * T + 3
  BY DEF TrailersAt
<1>2. k \in 0 .. Len(s) /\ Blanks(s, k) = Least(T, 2)
  BY DEF Blanks, TrailersAt
<1>3. CASE T = 0
  <2>1. p = End(s, k)
    BY <1>1, <1>3
  <2> QED BY <1>2, <2>1, DoneEnd
<1>4. CASE T # 0
  <2>1. PICK d \in Nat : d = f + 4 /\ d = p
    BY <1>4
  <2> HIDE DEF p
  <2>2. d <= e
    BY <1>1, <1>4, <2>1
  <2>3. \A t \in 1 .. T : Kind(s, f + 2 * t + 1) = "trailer" /\ Kind(s, f + 2 * t + 2) = "nl"
    BY DEF TrailersAt
  <2>4. Kind(s, e) = "nl"
    BY <1>1 DEF TrailersAt
  <2>5. ASSUME NEW x \in d + 1 .. e, x # e
        PROVE  \E t \in 1 .. T : x = f + 2 * t + 1 \/ x = f + 2 * t + 2
    <3>1. x - f \in Nat /\ x - f >= 3 /\ x - f <= 2 * T + 2
      BY <1>1, <2>1, <2>5
    <3>2. PICK t \in 1 .. T : x - f = 2 * t + 1 \/ x - f = 2 * t + 2
      BY <3>1, OddEven
    <3> QED BY <3>2
  <2>6. ASSUME NEW x \in d + 1 .. e PROVE Kind(s, x) \in {"nl", "trailer", "data"}
    <3>1. CASE x = e
      BY <2>4, <3>1
    <3>2. CASE x # e
      <4>1. PICK t \in 1 .. T : x = f + 2 * t + 1 \/ x = f + 2 * t + 2
        BY <2>5, <3>2
      <4> QED BY <2>3, <4>1
    <3> QED BY <3>1, <3>2
  <2>7. ASSUME NEW q \in Nat, NEW x \in Nat, d <= q, q <= x, x <= e, \A z \in q + 1 .. x : Kind(s, z) = "nl"
        PROVE  x - q <= Blanks(s, k)
    <3>1. x - q <= 2
      <4>1. SUFFICES ASSUME q + 3 <= x PROVE FALSE
        BY <2>7
      <4>2. q + 1 \in q + 1 .. x /\ q + 2 \in q + 1 .. x /\ q + 1 \in d + 1 .. e /\ q + 1 # e
        BY <2>1, <2>7, <4>1
      <4>3. PICK t \in 1 .. T : q + 1 = f + 2 * t + 1 \/ q + 1 = f + 2 * t + 2
        BY <2>5, <4>2
      <4>4. CASE q + 1 = f + 2 * t + 1
        <5>1. Kind(s, q + 1) = "trailer"
          BY <2>3, <4>3, <4>4
        <5>2. Kind(s, q + 1) = "nl"
          BY <2>7, <4>2
        <5> QED BY <5>1, <5>2
      <4>5. CASE q + 1 = f + 2 * t + 2
        <5>1. t + 1 \in 1 .. T /\ q + 2 = f + 2 * (t + 1) + 1
          BY <1>1, <2>7, <4>1, <4>3, <4>5
        <5>2. Kind(s, q + 2) = "trailer"
          BY <2>3, <5>1
        <5>3. Kind(s, q + 2) = "nl"
          BY <2>7, <4>2
        <5> QED BY <5>2, <5>3
      <4> QED BY <4>3, <4>4, <4>5
    <3>2. T = 1 => x - q <= 1
      BY <1>1, <2>1, <2>7
    <3> QED BY <1>2, <1>4, <3>1, <3>2 DEF Least
  <2>8. Done(s, d, k)
    BY <1>1, <1>2, <2>2, <2>6, <2>7 DEF Done
  <2> QED BY <2>1, <2>8 DEF p
<1> QED BY <1>3, <1>4

\* A request begins with a line of its head, or what is wrong with it.
LEMMA FirstUnit ==
  ASSUME NEW s \in Seq(Requests), NEW k \in 0 .. Len(s), End(s, k) < Len(Sent(s))
  PROVE  /\ k + 1 \in 1 .. Len(s) /\ End(s, k) \in Nat
         /\ s[k + 1].bad = "head" => Kind(s, End(s, k) + 1) = "bad"
         /\ s[k + 1].bad # "head" =>
              /\ s[k + 1].head \in Nat \ {0} /\ HeadEnd(s, k + 1) = End(s, k) + s[k + 1].head
              /\ Kind(s, HeadEnd(s, k + 1)) = "end"
              /\ Sent(s)[HeadEnd(s, k + 1)][2] = k + 1
              /\ \A j \in 1 .. s[k + 1].head - 1 : Kind(s, End(s, k) + j) = "head"
         /\ Kind(s, End(s, k) + 1) # "nl"
<1>1. /\ Len(s) \in Nat /\ Len(Sent(s)) = End(s, Len(s)) /\ End(s, k) \in Nat
  BY SentShape
<1>2. k # Len(s)
  BY <1>1
<1>3. PICK c \in 1 .. Len(s) : c = k + 1 /\ c - 1 = k
  BY <1>1, <1>2
<1>4. /\ s[c].bad = "head" => Sent(s)[End(s, c - 1) + 1] = Unit("bad", c, 1)
      /\ s[c].bad # "head" =>
              /\ s[c].head \in Nat \ {0}
              /\ Sent(s)[HeadEnd(s, c)] = Unit("end", c, s[c].head)
              /\ \A j \in 1 .. s[c].head - 1 : Sent(s)[End(s, c - 1) + j] = Unit("head", c, j)
  BY Request, Zenon
<1>5. HeadEnd(s, c) = End(s, c - 1) + s[c].head
  BY DEF HeadEnd
<1> DEFINE h == s[c].head
           e == End(s, c - 1)
           b == s[c].bad
<1>6. ASSUME b = "head" PROVE Kind(s, e + 1) = "bad"
  BY <1>4, <1>6 DEF Kind, Unit
<1>7. ASSUME b # "head"
      PROVE  /\ h \in Nat \ {0} /\ Kind(s, HeadEnd(s, c)) = "end" /\ Sent(s)[HeadEnd(s, c)][2] = c
             /\ \A j \in 1 .. h - 1 : Kind(s, e + j) = "head"
  BY <1>4, <1>7 DEF Kind, Unit
<1> HIDE DEF h, e, b
<1>8. Kind(s, e + 1) # "nl"
  <2>1. CASE b = "head"
    BY <1>6, <2>1
  <2>2. CASE b # "head" /\ h = 1
    <3>1. HeadEnd(s, c) = e + 1
      BY <1>5, <2>2 DEF h, e
    <3> QED BY <1>7, <2>2, <3>1
  <2>3. CASE b # "head" /\ h # 1
    <3>1. 1 \in 1 .. h - 1
      BY <1>7, <2>3
    <3> QED BY <1>7, <2>3, <3>1
  <2> QED BY <2>1, <2>2, <2>3
<1> QED BY <1>1, <1>3, <1>5, <1>6, <1>7, <1>8, Zenon DEF h, e, b

\* Empty lines before a head end where the request ends that is read.
LEMMA HeadStart ==
  ASSUME NEW s \in Seq(Requests), NEW U, NEW b \in Seq(U), NEW p, NEW k, Done(s, p, k),
         Window(Sent(s), b, p), NEW z \in 1 .. Len(b), b[z][1] \in {"head", "end"},
         \A i \in 1 .. z - 1 : b[i][1] = "nl"
  PROVE  /\ k \in 0 .. Len(s) /\ p \in Nat /\ End(s, k) \in Nat /\ End(s, k) < Len(Sent(s))
         /\ p + z = End(s, k) + 1
<1>1. k \in 0 .. Len(s) /\ p \in Nat /\ p <= End(s, k)
  BY DEF Done
<1>2. End(s, k) \in Nat /\ Len(Sent(s)) \in Nat
  BY <1>1, SentShape
<1>3. PICK l \in Nat : l = Len(b)
  OBVIOUS
<1>4. p + l <= Len(Sent(s)) /\ \A j \in 1 .. l : b[j][1] = Kind(s, p + j)
  BY <1>3 DEF Window, Kind
<1>5. ~(p + z <= End(s, k))
  <2>1. SUFFICES ASSUME p + z <= End(s, k) PROVE FALSE
    OBVIOUS
  <2>2. p + z \in p + 1 .. End(s, k)
    BY <1>1, <1>2, <1>3, <2>1
  <2>3. Kind(s, p + z) \in {"nl", "trailer", "data"}
    BY <2>2 DEF Done
  <2> QED BY <1>3, <1>4, <2>3
<1>6. End(s, k) < Len(Sent(s))
  BY <1>1, <1>2, <1>3, <1>4, <1>5
<1>7. Kind(s, End(s, k) + 1) # "nl"
  BY <1>1, <1>6, FirstUnit
<1>8. ~(End(s, k) + 1 < p + z)
  <2>1. SUFFICES ASSUME End(s, k) + 1 < p + z PROVE FALSE
    OBVIOUS
  <2>2. PICK i \in 1 .. z - 1 : p + i = End(s, k) + 1
    <3>1. (End(s, k) + 1) - p \in 1 .. z - 1 /\ p + ((End(s, k) + 1) - p) = End(s, k) + 1
      BY <1>1, <1>2, <2>1
    <3> QED BY <3>1
  <2>3. i \in 1 .. l
    BY <1>3
  <2> QED BY <1>4, <1>7, <2>2, <2>3
<1> QED BY <1>1, <1>2, <1>3, <1>5, <1>6, <1>8

\* httparse finds the head of the next request, and no other.
LEMMA HeadFound ==
  ASSUME NEW s \in Seq(Requests), NEW U, NEW b \in Seq(U), NEW p, NEW k, Done(s, p, k),
         Window(Sent(s), b, p), httparse(b).status = "complete"
  PROVE  /\ k + 1 \in 1 .. Len(s) /\ s[k + 1].bad # "head"
         /\ httparse(b).len \in 1 .. Len(b) /\ p + httparse(b).len = HeadEnd(s, k + 1)
         /\ b[httparse(b).len][2] = k + 1
<1>1. PICK z : z = Blank(b)
  OBVIOUS
<1>2. PICK l : l = EndOfHead(b)
  OBVIOUS
<1>3. z # 0 /\ StartsHead(b[z]) /\ l # 0 /\ httparse(b).len = l
  BY <1>1, <1>2 DEF httparse
<1>4. /\ z \in 0 .. Len(b) /\ Len(b) \in Nat /\ \A i \in 1 .. z - 1 : b[i][1] = "nl"
  BY <1>1, <1>3, BlankIs
<1>5. /\ l \in 0 .. Len(b) /\ b[l][1] = "end" /\ \A i \in 1 .. l - 1 : b[i][1] # "end"
  BY <1>2, <1>3, HeadEndIs
<1>6. z \in 1 .. Len(b) /\ l \in 1 .. Len(b) /\ b[z][1] \in {"head", "end"}
  BY <1>3, <1>4, <1>5 DEF StartsHead
<1>7. /\ k \in 0 .. Len(s) /\ p \in Nat /\ End(s, k) \in Nat /\ End(s, k) < Len(Sent(s))
      /\ p + z = End(s, k) + 1
  BY <1>4, <1>6, HeadStart
<1>8. PICK n \in Nat : n = Len(b)
  BY <1>4
<1>9. p + n <= Len(Sent(s)) /\ \A j \in 1 .. n : b[j] = Sent(s)[p + j] /\ b[j][1] = Kind(s, p + j)
  BY <1>8 DEF Window, Kind
<1> DEFINE c == k + 1
           e == End(s, k)
           h == s[c].head
<1>10. /\ c \in 1 .. Len(s)
       /\ s[c].bad = "head" => Kind(s, e + 1) = "bad"
       /\ s[c].bad # "head" =>
              /\ h \in Nat \ {0} /\ HeadEnd(s, c) = e + h
              /\ Kind(s, HeadEnd(s, c)) = "end" /\ Sent(s)[HeadEnd(s, c)][2] = c
              /\ \A j \in 1 .. h - 1 : Kind(s, e + j) = "head"
  BY <1>7, FirstUnit, Zenon
<1>11. s[c].bad # "head"
  <2>1. b[z][1] = Kind(s, e + 1)
    BY <1>6, <1>7, <1>8, <1>9
  <2> QED BY <1>6, <1>10, <2>1
<1> HIDE DEF e, h, c
<1>12. h \in Nat \ {0} /\ HeadEnd(s, c) = e + h /\ Kind(s, e + h) = "end" /\ Sent(s)[e + h][2] = c
       /\ \A j \in 1 .. h - 1 : Kind(s, e + j) = "head"
  BY <1>10, <1>11
<1>13. e \in Nat /\ p + z = e + 1
  BY <1>7 DEF e
<1>14. z <= l
  <2>1. SUFFICES ASSUME l < z PROVE FALSE
    BY <1>6, <1>8
  <2>2. l \in 1 .. z - 1
    BY <1>6, <1>8, <2>1
  <2> QED BY <1>4, <1>5, <2>2
<1>15. PICK j \in Nat \ {0} : p + l = e + j
  <2>1. (p + l) - e \in Nat \ {0} /\ p + l = e + ((p + l) - e)
    BY <1>6, <1>7, <1>8, <1>13, <1>14
  <2> QED BY <2>1
<1>16. ~(j < h)
  <2>1. SUFFICES ASSUME j < h PROVE FALSE
    OBVIOUS
  <2>2. Kind(s, e + j) = "head"
    BY <1>12, <2>1
  <2>3. b[l][1] = Kind(s, p + l)
    BY <1>6, <1>8, <1>9
  <2> QED BY <1>5, <1>15, <2>2, <2>3
<1>17. ~(h < j)
  <2>1. SUFFICES ASSUME h < j PROVE FALSE
    OBVIOUS
  <2>2. PICK i \in 1 .. l - 1 : p + i = e + h
    <3>1. (e + h) - p \in 1 .. l - 1 /\ p + ((e + h) - p) = e + h
      BY <1>6, <1>7, <1>8, <1>12, <1>13, <1>15, <2>1
    <3> QED BY <3>1
  <2>3. i \in 1 .. n
    BY <1>6, <1>8
  <2>4. b[i][1] = Kind(s, e + h)
    BY <1>9, <2>2, <2>3
  <2> QED BY <1>5, <1>12, <2>2, <2>4
<1>18. p + l = e + h
  BY <1>12, <1>15, <1>16, <1>17
<1>19. b[l][2] = c
  BY <1>6, <1>8, <1>9, <1>12, <1>18
<1> QED BY <1>3, <1>6, <1>10, <1>11, <1>12, <1>18, <1>19 DEF c

\* A full buffer without a whole head: the head is longer than it, with the
\* empty lines before it.
LEMMA Oversize ==
  ASSUME NEW s \in Seq(Requests), NEW U, NEW b \in Seq(U), NEW p, NEW k, Done(s, p, k),
         Window(Sent(s), b, p), httparse(b).status = "partial", Len(b) > 2
  PROVE  k + 1 \in 1 .. Len(s) /\ Len(b) < s[k + 1].head + Blanks(s, k)
<1>1. PICK z : z = Blank(b)
  OBVIOUS
<1>2. PICK l : l = EndOfHead(b)
  OBVIOUS
<1>3. z = 0 \/ (z # 0 /\ StartsHead(b[z]) /\ l = 0)
  BY <1>1, <1>2 DEF httparse
<1>4. /\ z \in 0 .. Len(b) /\ Len(b) \in Nat
      /\ z = 0 => \A i \in 1 .. Len(b) : b[i][1] = "nl"
      /\ z # 0 => \A i \in 1 .. z - 1 : b[i][1] = "nl"
  BY <1>1, BlankIs
<1>5. l = 0 => \A i \in 1 .. Len(b) : b[i][1] # "end"
  BY <1>2, HeadEndIs
<1>6. PICK n \in Nat : n = Len(b)
  BY <1>4
<1>7. p + n <= Len(Sent(s)) /\ \A j \in 1 .. n : b[j] = Sent(s)[p + j] /\ b[j][1] = Kind(s, p + j)
  BY <1>6 DEF Window, Kind
<1>8. k \in 0 .. Len(s) /\ p \in Nat /\ p <= End(s, k)
  BY DEF Done
<1>9. Blanks(s, k) \in 0 .. 2 /\ End(s, k) \in Nat /\ Len(Sent(s)) \in Nat
  BY <1>8, BlanksType, SentShape
<1>d. \A q, x \in Nat : p <= q /\ q <= x /\ x <= End(s, k) /\ (\A y \in q + 1 .. x : Kind(s, y) = "nl")
                       => x - q <= Blanks(s, k)
  BY DEF Done
<1>10. CASE z = 0
  <2>1. \A i \in 1 .. n : Kind(s, p + i) = "nl"
    BY <1>4, <1>6, <1>7, <1>10
  <2>2. ~(End(s, k) + 1 <= p + n)
    <3>1. SUFFICES ASSUME End(s, k) + 1 <= p + n PROVE FALSE
      OBVIOUS
    <3>2. PICK i \in 1 .. n : p + i = End(s, k) + 1
      <4>1. (End(s, k) + 1) - p \in 1 .. n /\ p + ((End(s, k) + 1) - p) = End(s, k) + 1
        BY <1>8, <1>9, <3>1
      <4> QED BY <4>1
    <3>3. Kind(s, End(s, k) + 1) = "nl"
      BY <2>1, <3>2
    <3>4. End(s, k) < Len(Sent(s))
      BY <1>7, <1>8, <1>9, <3>1
    <3> QED BY <1>8, <3>3, <3>4, FirstUnit
  <2>3. p + n \in Nat /\ p + n <= End(s, k) /\ p <= p + n
    BY <1>8, <1>9, <2>2
  <2>4. ASSUME NEW y \in p + 1 .. p + n PROVE Kind(s, y) = "nl"
    <3>1. y - p \in 1 .. n /\ p + (y - p) = y
      BY <1>8
    <3> QED BY <2>1, <3>1
  <2>5. (p + n) - p <= Blanks(s, k)
    BY <1>d, <1>8, <2>3, <2>4
  <2> HIDE DEF Blanks
  <2> QED BY <1>6, <1>8, <1>9, <2>5
<1>11. CASE z # 0
  <2>1. b[z][1] \in {"head", "end"} /\ z \in 1 .. Len(b)
    BY <1>3, <1>4, <1>11 DEF StartsHead
  <2>2. End(s, k) < Len(Sent(s)) /\ p + z = End(s, k) + 1
    BY <1>4, <1>11, <2>1, HeadStart
  <2> DEFINE c == k + 1
             e == End(s, k)
             h == s[c].head
             f == HeadEnd(s, c)
  <2>3. /\ c \in 1 .. Len(s)
        /\ s[c].bad = "head" => Kind(s, e + 1) = "bad"
        /\ s[c].bad # "head" => h \in Nat \ {0} /\ f = e + h /\ Kind(s, f) = "end"
    BY <1>8, <2>2, FirstUnit, Zenon
  <2>4. s[c].bad # "head"
    <3>1. b[z][1] = Kind(s, e + 1)
      BY <1>6, <1>7, <2>1, <2>2
    <3> QED BY <2>1, <2>3, <3>1
  <2>e. p <= e /\ e \in Nat /\ p + z = e + 1
    BY <1>8, <1>9, <2>2
  <2>5. e - p <= Blanks(s, k)
    <3>1. ASSUME NEW y \in p + 1 .. e PROVE Kind(s, y) = "nl"
      <4>1. y - p \in 1 .. z - 1 /\ p + (y - p) = y /\ y - p \in 1 .. n
        BY <1>6, <1>8, <2>1, <2>e
      <4> QED BY <1>4, <1>7, <1>11, <4>1
    <3> QED BY <1>d, <1>8, <2>e, <3>1, SMTT(30)
  <2> HIDE DEF c, e, h, f, Blanks
  <2>6. ~(e + h <= p + n)
    <3>1. SUFFICES ASSUME e + h <= p + n PROVE FALSE
      OBVIOUS
    <3>2. PICK i \in 1 .. n : p + i = e + h
      <4>1. (e + h) - p \in 1 .. n /\ p + ((e + h) - p) = e + h
        BY <1>8, <2>3, <2>4, <2>e, <3>1
      <4> QED BY <4>1
    <3>3. b[i][1] = "end"
      BY <1>7, <2>3, <2>4, <3>2
    <3> QED BY <1>3, <1>5, <1>6, <1>11, <3>2, <3>3
  <2>7. n < h + Blanks(s, k)
    BY <1>8, <1>9, <2>3, <2>4, <2>5, <2>6, <2>e, SMTT(30)
  <2> QED BY <1>6, <2>3, <2>7 DEF c, h
<1> QED BY <1>10, <1>11

(***************************************************************************)
(* Where the parser stands, as a position p of the stream: in a body whose *)
(* length was announced, before the line of a size, in a chunk, after the  *)
(* last chunk, or at the end of a request.                                 *)
(***************************************************************************)

\* b is the beginning of the body of request k, and what is sent from p on
\* goes on with nd units of it.
Reads(s, k, p, b, nd) ==
  /\ p \in Nat /\ nd \in Nat /\ Len(b) + nd <= Len(Pay(s, k))
  /\ \A j \in 1 .. Len(b) : b[j] = Pay(s, k)[j]
  /\ \A j \in 1 .. nd : Sent(s)[p + j] = Pay(s, k)[Len(b) + j]

\* Request k is one that can be read: its head is well-formed.
Usable(s, k) == k \in 1 .. Len(s) /\ s[k].bad # "head"

\* The parser is in a body of known length (read_fixed_body): the nd units that
\* are missing follow, and the request ends with them.
AtFixed(s, k, p, b, nd) ==
  /\ Usable(s, k) /\ ~s[k].chunked /\ s[k].length # NoLength
  /\ Reads(s, k, p, b, nd) /\ Len(b) + nd = Len(Pay(s, k)) /\ p + nd = End(s, k)

\* It is before the line of a size (read_chunked_body), after the c-th chunk.
AtSize(s, k, p, b) ==
  /\ Usable(s, k) /\ s[k].chunked /\ Reads(s, k, p, b, 0)
  /\ \E c \in 0 .. Len(s[k].chunks) : p = ChunkEnd(s, k, c) /\ Len(b) = DataEnd(s, k, c)

\* It is in the data of the c-th chunk, of which nd units are missing.
AtChunk(s, k, p, b, nd) ==
  /\ Usable(s, k) /\ s[k].chunked /\ Reads(s, k, p, b, nd)
  /\ \E c \in 1 .. Len(s[k].chunks) :
       p + nd + 1 = ChunkEnd(s, k, c) /\ Len(b) + nd = DataEnd(s, k, c)

\* It is after the line with the size 0.
AtLast(s, k, p, b) ==
  /\ Usable(s, k) /\ s[k].chunked /\ Reads(s, k, p, b, 0)
  /\ p = ChunkEnd(s, k, Len(s[k].chunks)) + 2 /\ Len(b) = Len(Pay(s, k))

\* The request is read, with the body that it declares.
Whole(s, k, p, b) == Usable(s, k) /\ b = DeclaredBody(s[k], k) /\ Done(s, p, k)

\* A body is a sequence of units.
LEMMA PayType ==
  ASSUME NEW s \in Seq(Requests), NEW k \in 1 .. Len(s)
  PROVE  \E U : Pay(s, k) \in Seq(U) /\ Len(Pay(s, k)) \in Nat
<1>1. s[k] \in Requests /\ k \in 1 .. Len(s)
  OBVIOUS
<1>2. Payload(s[k], k) \in Seq(UnitsOf(1 .. Len(s)))
  BY <1>1, EncodeType, Zenon
<1>3. PICK q : q = Payload(s[k], k)
  OBVIOUS
<1>4. Len(q) \in Nat
  BY <1>2, <1>3
<1> QED BY <1>2, <1>3, <1>4, Zenon DEF Pay

\* With t it is read further by as much, and its end stays where it is.
Further(s, k, p, b, nd, t) ==
  /\ Reads(s, k, p + Len(t), b \o t, nd - Len(t))
  /\ Len(b \o t) + (nd - Len(t)) = Len(b) + nd
  /\ (p + Len(t)) + (nd - Len(t)) = p + nd

\* Whatever is taken of the nd units that are missing is more of the body.
LEMMA ReadsOn ==
  ASSUME NEW s, NEW k, NEW p, NEW U, NEW b, NEW nd, NEW t, s \in Seq(Requests), k \in 1 .. Len(s),
         Reads(s, k, p, b, nd), b \in Seq(U), t \in Seq(U), Window(Sent(s), t, p), Len(t) <= nd
  PROVE  Further(s, k, p, b, nd, t)
<1> DEFINE y == b \o t
<1>1. /\ Len(y) = Len(b) + Len(t) /\ Len(b) \in Nat /\ Len(t) \in Nat
      /\ \A j \in 1 .. Len(b) : y[j] = b[j]
      /\ \A j \in 1 .. Len(t) : y[Len(b) + j] = t[j]
  BY JoinedParts
<1> HIDE DEF y
<1>2. PICK l \in Nat : l = Len(b)
  BY <1>1
<1>3. PICK m \in Nat : m = Len(t)
  BY <1>1
<1>4. PICK q : q = Pay(s, k)
  OBVIOUS
<1>5. Len(q) \in Nat
  BY <1>4, PayType
<1>6. /\ p \in Nat /\ nd \in Nat /\ l + nd <= Len(q) /\ m <= nd
      /\ \A j \in 1 .. l : b[j] = q[j]
      /\ \A j \in 1 .. nd : Sent(s)[p + j] = q[l + j]
  BY <1>2, <1>3, <1>4 DEF Reads
<1>7. \A j \in 1 .. m : t[j] = Sent(s)[p + j]
  BY <1>3 DEF Window
<1>8. Len(y) = l + m /\ (\A j \in 1 .. l : y[j] = b[j]) /\ \A j \in 1 .. m : y[l + j] = t[j]
  BY <1>1, <1>2, <1>3
<1>9. ASSUME NEW j \in 1 .. l + m PROVE y[j] = q[j]
  <2>1. CASE j <= l
    BY <1>6, <1>8, <2>1
  <2>2. CASE j > l
    <3>1. PICK i \in 1 .. m : j = l + i
      <4>1. j - l \in 1 .. m /\ j = l + (j - l)
        BY <2>2
      <4> QED BY <4>1
    <3>2. i \in 1 .. nd
      BY <1>6
    <3> QED BY <1>6, <1>7, <1>8, <3>1, <3>2
  <2> QED BY <2>1, <2>2
<1>10. ASSUME NEW j \in 1 .. nd - m PROVE Sent(s)[(p + m) + j] = q[(l + m) + j]
  <2>1. m + j \in 1 .. nd /\ (p + m) + j = p + (m + j) /\ (l + m) + j = l + (m + j)
    BY <1>6
  <2> QED BY <1>6, <2>1
<1>11. /\ p + m \in Nat /\ nd - m \in Nat /\ (l + m) + (nd - m) <= Len(q)
       /\ (l + m) + (nd - m) = l + nd /\ (p + m) + (nd - m) = p + nd
  BY <1>5, <1>6
<1>12. Reads(s, k, p + m, y, nd - m)
  BY <1>4, <1>8, <1>9, <1>10, <1>11 DEF Reads
<1> QED BY <1>2, <1>3, <1>8, <1>11, <1>12 DEF y, Further

\* A body that is read to its end.
LEMMA ReadsAll ==
  ASSUME NEW s \in Seq(Requests), NEW k \in 1 .. Len(s), NEW p, NEW U, NEW b \in Seq(U),
         Reads(s, k, p, b, 0), Len(b) = Len(Pay(s, k))
  PROVE  b = Pay(s, k)
<1>1. PICK q, V : q = Pay(s, k) /\ q \in Seq(V)
  BY PayType
<1>2. Len(b) = Len(q) /\ \A j \in 1 .. Len(b) : b[j] = q[j]
  BY <1>1 DEF Reads
<1>3. b = q
  BY <1>1, <1>2
<1> QED BY <1>1, <1>3

\* After the head of a request with a Content-Length the body follows, of this
\* length.
LEMMA StartFixed ==
  ASSUME NEW s \in Seq(Requests), NEW k, Usable(s, k), ~s[k].chunked, s[k].length # NoLength,
         Honest(s[k], k)
  PROVE  AtFixed(s, k, HeadEnd(s, k), <<>>, s[k].length)
<1>1. k \in 1 .. Len(s) /\ s[k].bad # "head"
  BY DEF Usable
<1>2. /\ End(s, k) = HeadEnd(s, k) + Len(Pay(s, k))
      /\ \A j \in 1 .. Len(Pay(s, k)) : Sent(s)[HeadEnd(s, k) + j] = Pay(s, k)[j]
  BY <1>1, Plain
<1>3. HeadEnd(s, k) \in Nat /\ End(s, k) \in Nat
  BY <1>1, Request
<1>4. Len(Pay(s, k)) \in Nat
  BY <1>1, PayType
<1>5. s[k].length = Len(Pay(s, k))
  BY DEF Honest, Pay
<1>6. PICK l \in Nat : l = Len(Pay(s, k)) /\ l = s[k].length
  BY <1>4, <1>5
<1>7. \A j \in 1 .. l : 0 + j = j
  OBVIOUS
<1>8. Reads(s, k, HeadEnd(s, k), <<>>, l)
  BY <1>2, <1>3, <1>6, <1>7 DEF Reads
<1> QED BY <1>1, <1>2, <1>3, <1>6, <1>8 DEF AtFixed, Usable

\* A request without Content-Length and chunks is read with its head, and has
\* no body.
LEMMA StartPlain ==
  ASSUME NEW s \in Seq(Requests), NEW k, Usable(s, k), ~s[k].chunked, s[k].length = NoLength
  PROVE  Whole(s, k, HeadEnd(s, k), <<>>)
<1>1. k \in 1 .. Len(s) /\ s[k].bad # "head"
  BY DEF Usable
<1>2. Done(s, HeadEnd(s, k), k)
  BY <1>1, DonePlain
<1>3. DeclaredBody(s[k], k) = <<>>
  BY DEF DeclaredBody, is_chunked, get_content_length
<1> QED BY <1>2, <1>3 DEF Whole

\* After the head of a chunked request the line of a size follows.
LEMMA StartSize ==
  ASSUME NEW s \in Seq(Requests), NEW k, Usable(s, k), s[k].chunked
  PROVE  AtSize(s, k, HeadEnd(s, k), <<>>)
<1>1. k \in 1 .. Len(s) /\ s[k].bad # "head"
  BY DEF Usable
<1>2. /\ Len(s[k].chunks) \in Nat
      /\ ChunkEnd(s, k, 0) = HeadEnd(s, k) /\ DataEnd(s, k, 0) = 0
  BY <1>1, ChunkedBody, Zenon
<1>3. HeadEnd(s, k) \in Nat
  BY <1>1, Request
<1>4. Len(Pay(s, k)) \in Nat
  BY <1>1, PayType
<1>5. Reads(s, k, HeadEnd(s, k), <<>>, 0)
  BY <1>3, <1>4 DEF Reads
<1>6. 0 \in 0 .. Len(s[k].chunks) /\ Len(<<>>) = 0
  BY <1>2
<1> QED BY <1>2, <1>5, <1>6 DEF AtSize

\* When no unit is missing, the request is read.
LEMMA EndFixed ==
  ASSUME NEW s \in Seq(Requests), NEW k, NEW p, NEW U, NEW b \in Seq(U), AtFixed(s, k, p, b, 0)
  PROVE  Whole(s, k, p, b)
<1>1. k \in 1 .. Len(s) /\ s[k].bad # "head" /\ ~s[k].chunked /\ s[k].length # NoLength
  BY DEF AtFixed, Usable
<1>2. Reads(s, k, p, b, 0) /\ Len(b) + 0 = Len(Pay(s, k)) /\ p + 0 = End(s, k) /\ p \in Nat
  BY DEF AtFixed, Reads
<1>3. p = End(s, k) /\ Len(b) = Len(Pay(s, k))
  BY <1>2
<1>4. b = Pay(s, k)
  BY <1>1, <1>2, <1>3, ReadsAll
<1>5. b = DeclaredBody(s[k], k)
  BY <1>1, <1>4 DEF DeclaredBody, is_chunked, get_content_length, Pay
<1>6. k \in 0 .. Len(s)
  BY <1>1
<1>7. Done(s, p, k)
  BY <1>3, <1>6, DoneEnd
<1> QED BY <1>1, <1>5, <1>7 DEF Whole, Usable

\* A line without its end, at p.
Line(s, p, t) ==
  /\ Window(Sent(s), t, p) /\ Len(t) \in Nat
  /\ \A j \in 1 .. Len(t) : t[j][1] # "nl"
  /\ Kind(s, p + Len(t) + 1) = "nl"

\* The first end of line is n units after p.
EndsAt(s, p, n) ==
  n \in Nat /\ Kind(s, p + n + 1) = "nl" /\ \A j \in 1 .. n : Kind(s, p + j) # "nl"

\* A line is as long as the distance to the first end of line.
LEMMA LineLen ==
  ASSUME NEW s, NEW p, NEW t, NEW n, p \in Nat, Line(s, p, t), EndsAt(s, p, n)
  PROVE  Len(t) = n
<1>0. n \in Nat /\ Kind(s, p + n + 1) = "nl" /\ \A j \in 1 .. n : Kind(s, p + j) # "nl"
  BY DEF EndsAt
<1>1. PICK l \in Nat : l = Len(t)
  BY DEF Line
<1>2. /\ \A j \in 1 .. l : t[j] = Sent(s)[p + j] /\ Kind(s, p + j) # "nl"
      /\ Kind(s, p + l + 1) = "nl"
  BY <1>1 DEF Line, Window, Kind
<1>3. ~(l < n)
  <2>1. SUFFICES ASSUME l < n PROVE FALSE
    OBVIOUS
  <2>2. l + 1 \in 1 .. n /\ p + (l + 1) = p + l + 1
    BY <1>0, <2>1
  <2> QED BY <1>0, <1>2, <2>2
<1>4. ~(n < l)
  <2>1. SUFFICES ASSUME n < l PROVE FALSE
    OBVIOUS
  <2>2. n + 1 \in 1 .. l /\ p + (n + 1) = p + n + 1
    BY <1>0, <2>1
  <2> QED BY <1>0, <1>2, <2>2
<1>5. l = n
  BY <1>0, <1>3, <1>4
<1> QED BY <1>1, <1>5

\* What is read of a body does not depend on where the parser stands.
LEMMA ReadsNothing ==
  ASSUME NEW s, NEW k, NEW p, NEW b, NEW nd, Reads(s, k, p, b, nd), NEW q \in Nat, Len(b) \in Nat,
         Len(Pay(s, k)) \in Nat
  PROVE  Reads(s, k, q, b, 0)
  BY DEF Reads

\* The line of a size: a chunk of that size follows it, or the trailers.
LEMMA SizeLine ==
  ASSUME NEW s \in Seq(Requests), NEW k, NEW p, NEW U, NEW b \in Seq(U), AtSize(s, k, p, b),
         NEW t, Window(Sent(s), t, p), Len(t) = 1, t[1][1] = "size"
  PROVE  /\ p + 2 \in Nat
         /\ t[1][3] = 0 => AtLast(s, k, p + 2, b)
         /\ t[1][3] # 0 => AtChunk(s, k, p + 2, b, t[1][3])
<1>1. k \in 1 .. Len(s) /\ s[k].bad # "head" /\ s[k].chunked /\ Usable(s, k) /\ Reads(s, k, p, b, 0)
  BY DEF AtSize, Usable
<1> DEFINE m == Len(s[k].chunks)
           w == Sent(s)
           q == Pay(s, k)
           C(c) == ChunkEnd(s, k, c)
           D(c) == DataEnd(s, k, c)
           X(c) == s[k].chunks[c]
<1>a. /\ m \in Nat /\ D(m) = Len(q) /\ w[C(m) + 1] = Unit("size", k, 0)
      /\ \A c \in 0 .. m : C(c) \in Nat /\ D(c) \in Nat /\ D(c) <= Len(q)
  BY <1>1, ChunkedBody, Zenon
<1>c. \A c \in 1 .. m : ChunkAt(s, k, c)
  BY <1>1, ChunkedBody, Zenon
<1>b. ASSUME NEW c \in 1 .. m
      PROVE  /\ X(c) \in Nat \ {0} /\ C(c) = C(c - 1) + X(c) + 3 /\ D(c) = D(c - 1) + X(c)
             /\ w[C(c - 1) + 1] \in {Unit("junk", k, 0), Unit("size", k, X(c))}
             /\ \A j \in 1 .. X(c) : w[C(c - 1) + 2 + j] = q[D(c - 1) + j]
  <2>1. ChunkAt(s, k, c)
    BY <1>c
  <2> QED BY <2>1, Zenon DEF ChunkAt
<1>3. PICK c \in 0 .. m : p = C(c) /\ Len(b) = D(c)
  BY DEF AtSize
<1>4. t[1] = w[p + 1]
  BY DEF Window
<1>5. p \in Nat /\ Len(q) \in Nat /\ Len(b) \in Nat
  BY <1>1, PayType DEF Reads
<1> HIDE DEF m, w, q, C, D, X
<1>6. Reads(s, k, p + 2, b, 0)
  BY <1>1, <1>5, ReadsNothing DEF q
<1>7. CASE c = m
  <2>1. t[1][3] = 0
    BY <1>a, <1>b, <1>3, <1>4, <1>7 DEF Unit
  <2>2. p + 2 = C(m) + 2 /\ Len(b) = Len(q)
    BY <1>a, <1>b, <1>3, <1>7
  <2>3. AtLast(s, k, p + 2, b)
    BY <1>1, <1>6, <2>2 DEF AtLast, C, m, q
  <2> QED BY <1>5, <2>1, <2>3
<1>8. CASE c # m
  <2>1. PICK e \in 1 .. m : e - 1 = c
    <3>1. c + 1 \in 1 .. m /\ (c + 1) - 1 = c
      BY <1>a, <1>b, <1>8
    <3> QED BY <3>1
  <2>2. PICK n \in Nat \ {0} : n = X(e)
    BY <1>a, <1>b
  <2>3. /\ C(e) = p + n + 3 /\ D(e) = D(c) + n
        /\ w[p + 1] \in {Unit("junk", k, 0), Unit("size", k, n)}
        /\ \A j \in 1 .. n : w[p + 2 + j] = q[D(c) + j]
    BY <1>a, <1>b, <1>3, <2>1, <2>2
  <2>4. w[p + 1] # Unit("junk", k, 0)
    BY <1>4 DEF Unit
  <2>5. t[1][3] = n
    BY <1>4, <2>3, <2>4 DEF Unit
  <2>6. D(e) \in Nat /\ D(e) <= Len(q)
    BY <1>a, <1>b, <2>1
  <2>7. Len(b) + n = D(e) /\ (p + 2) + n + 1 = C(e) /\ p + 2 \in Nat
    BY <1>3, <1>5, <2>3, SMTT(30)
  <2>8. \A j \in 1 .. n : w[(p + 2) + j] = q[Len(b) + j]
    BY <1>3, <2>3
  <2>9. \A j \in 1 .. Len(b) : b[j] = q[j]
    BY <1>1 DEF Reads, q
  <2>10. Reads(s, k, p + 2, b, n)
    BY <2>6, <2>7, <2>8, <2>9 DEF Reads, w, q
  <2>11. AtChunk(s, k, p + 2, b, n)
    BY <1>1, <2>1, <2>7, <2>10 DEF AtChunk, C, D, m
  <2> QED BY <1>5, <2>5, <2>11
<1> QED BY <1>7, <1>8

\* The end of a chunk.
LEMMA CrlfLine ==
  ASSUME NEW s \in Seq(Requests), NEW k, NEW p, NEW U, NEW b \in Seq(U), AtChunk(s, k, p, b, 0),
         NEW t, Line(s, p, t)
  PROVE  p + Len(t) + 1 \in Nat /\ AtSize(s, k, p + Len(t) + 1, b)
<1>1. k \in 1 .. Len(s) /\ s[k].bad # "head" /\ s[k].chunked /\ Usable(s, k) /\ Reads(s, k, p, b, 0)
  BY DEF AtChunk, Usable
<1> DEFINE m == Len(s[k].chunks)
           w == Sent(s)
           C(c) == ChunkEnd(s, k, c)
           D(c) == DataEnd(s, k, c)
<1>a. m \in Nat /\ \A c \in 1 .. m : ChunkAt(s, k, c)
  BY <1>1, ChunkedBody, Zenon
<1>2. m \in Nat /\ \A c \in 1 .. m : w[C(c)] = Unit("nl", k, 0)
  BY <1>a, Zenon DEF ChunkAt
<1>3. PICK c \in 1 .. m : p + 0 + 1 = C(c) /\ Len(b) + 0 = D(c)
  BY DEF AtChunk
<1>5. p \in Nat /\ Len(Pay(s, k)) \in Nat /\ Len(b) \in Nat
  BY <1>1, PayType DEF Reads
<1> HIDE DEF m, w, C, D
<1>6. p + 1 = C(c) /\ Len(b) = D(c) /\ p + 1 \in Nat
  BY <1>3, <1>5
<1>7. Kind(s, p + 0 + 1) = "nl"
  BY <1>2, <1>3 DEF Kind, Unit, w
<1>8. Len(t) = 0
  <2>1. PICK n \in Nat : n = 0
    OBVIOUS
  <2>2. EndsAt(s, p, n)
    BY <1>7, <2>1 DEF EndsAt
  <2>3. Len(t) = n
    BY <1>5, <2>2, LineLen
  <2> QED BY <2>1, <2>3
<1>9. p + Len(t) + 1 = p + 1
  BY <1>5, <1>8
<1>10. Reads(s, k, p + 1, b, 0)
  BY <1>1, <1>5, ReadsNothing
<1>11. c \in 0 .. m
  BY <1>2
<1>12. AtSize(s, k, p + 1, b)
  BY <1>1, <1>6, <1>10, <1>11 DEF AtSize, m, C, D
<1> QED BY <1>6, <1>9, <1>12

\* The line after the last chunk, whatever it is.
LEMMA LastLine ==
  ASSUME NEW s \in Seq(Requests), NEW k, NEW p, NEW U, NEW b \in Seq(U), AtLast(s, k, p, b),
         NEW t, Line(s, p, t)
  PROVE  p + Len(t) + 1 \in Nat /\ Whole(s, k, p + Len(t) + 1, b)
<1>1. k \in 1 .. Len(s) /\ s[k].bad # "head" /\ s[k].chunked /\ Usable(s, k) /\ Reads(s, k, p, b, 0)
  BY DEF AtLast, Usable
<1>2. PICK f \in Nat, T \in Nat : TrailersAt(s, k, f, T)
  BY <1>1, TrailersHold
<1>3. p = f + 2 /\ Len(b) = Len(Pay(s, k)) /\ p \in Nat
  BY <1>2 DEF AtLast, TrailersAt
<1>4. Done(s, IF T = 0 THEN f + 3 ELSE f + 4, k)
  BY <1>1, <1>2, DoneChunked
<1>5. b = Pay(s, k)
  BY <1>1, <1>3, ReadsAll
<1>6. b = DeclaredBody(s[k], k)
  BY <1>1, <1>5 DEF DeclaredBody, is_chunked, Pay
<1>7. p + Len(t) + 1 = IF T = 0 THEN f + 3 ELSE f + 4
  <2>1. CASE T = 0
    <3>1. End(s, k) = f + 3
      BY <1>2, <2>1 DEF TrailersAt
    <3>2. Kind(s, f + 3) = "nl"
      BY <1>2, <3>1 DEF TrailersAt
    <3>3. p + 0 + 1 = f + 3
      BY <1>3
    <3>4. Len(t) = 0
      <4>1. PICK n \in Nat : n = 0
        OBVIOUS
      <4>2. EndsAt(s, p, n)
        BY <3>2, <3>3, <4>1 DEF EndsAt
      <4>3. Len(t) = n
        BY <1>3, <4>2, LineLen
      <4> QED BY <4>1, <4>3
    <3> QED BY <1>3, <2>1, <3>4
  <2>2. CASE T # 0
    <3>1. 1 \in 1 .. T /\ f + 2 * 1 + 1 = f + 3 /\ f + 2 * 1 + 2 = f + 4
      BY <2>2
    <3>2. Kind(s, f + 3) = "trailer" /\ Kind(s, f + 4) = "nl"
      BY <1>2, <3>1 DEF TrailersAt
    <3>3. p + 1 + 1 = f + 4 /\ p + 1 = f + 3
      BY <1>3
    <3>4. \A j \in 1 .. 1 : Kind(s, p + j) # "nl"
      BY <3>2, <3>3
    <3>5. Len(t) = 1
      <4>1. PICK n \in Nat : n = 1
        OBVIOUS
      <4>2. EndsAt(s, p, n)
        BY <3>2, <3>3, <3>4, <4>1 DEF EndsAt
      <4>3. Len(t) = n
        BY <1>3, <4>2, LineLen
      <4> QED BY <4>1, <4>3
    <3> QED BY <1>3, <2>2, <3>5
  <2> QED BY <2>1, <2>2
<1>8. p + Len(t) + 1 \in Nat
  BY <1>7
<1> QED BY <1>1, <1>4, <1>6, <1>7, <1>8 DEF Whole

(***************************************************************************)
(* The stream from p on is what the server has put aside of a line, what   *)
(* its buffer holds and what is still on the wire, in this order.          *)
(***************************************************************************)

\* What is put aside, buffered and still to come, one after the other from p on.
Streams(w, p, x, y, z) ==
  /\ p \in Nat /\ Window(w, x, p) /\ Window(w, y, p + Len(x))
  /\ Window(w, z, p + Len(x) + Len(y))

\* Where reading stands in the stream.
Reached(p, x, y) == p + Len(x) + Len(y)

\* A piece q at a is cut after n units.
CutAt(w, q, a, n) ==
  /\ Window(w, Take(q, n), a) /\ Len(Take(q, n)) = n
  /\ Window(w, Drop(q, n), a + n) /\ Len(Drop(q, n)) = Len(q) - n

\* A piece q at a is joined with the piece t that follows it.
JoinAt(w, q, t, a) == Window(w, q \o t, a) /\ Len(q \o t) = Len(q) + Len(t)

\* WindowCut for Take and Drop.
LEMMA WindowCuts ==
  ASSUME NEW U, NEW w, NEW q, NEW a, NEW n, q \in Seq(U), n \in 0 .. Len(q), Window(w, q, a), Len(w) \in Nat
  PROVE  CutAt(w, q, a, n)
  BY WindowCut DEF CutAt

\* WindowJoin for a place e that is known to follow q.
LEMMA WindowJoins ==
  ASSUME NEW U, NEW w, NEW q, NEW t, NEW a, NEW e, q \in Seq(U), t \in Seq(U), Len(w) \in Nat,
         Window(w, q, a), Window(w, t, e), e = a + Len(q)
  PROVE  JoinAt(w, q, t, a)
  BY WindowJoin DEF JoinAt

\* Nothing is a piece of every stream.
LEMMA WindowNone ==
  ASSUME NEW w, NEW a, NEW U, NEW q \in Seq(U), Window(w, q, a), Len(w) \in Nat
  PROVE  Window(w, <<>>, a)
<1>1. Len(<<>>) = 0 /\ Len(q) \in Nat
  OBVIOUS
<1> QED BY <1>1 DEF Window

\* A read appends n units of the wire to the buffer.
LEMMA ReadIntoBuffer ==
  ASSUME NEW w, Len(w) \in Nat, NEW U, NEW p, NEW x \in Seq(U), NEW y \in Seq(U), NEW z \in Seq(U),
         Streams(w, p, x, y, z), NEW n \in 0 .. Len(z)
  PROVE  /\ Streams(w, p, x, y \o Take(z, n), Drop(z, n))
         /\ Reached(p, x, y \o Take(z, n)) = Reached(p, x, y) + n
<1> DEFINE t == Take(z, n)
           d == Drop(z, n)
<1>1. p \in Nat /\ Len(x) \in Nat /\ Len(y) \in Nat
  BY DEF Streams
<1>2. PICK a \in Nat : a = p + Len(x)
  BY <1>1
<1>3. PICK e \in Nat : e = a + Len(y)
  BY <1>1, <1>2
<1>4. Window(w, x, p) /\ Window(w, y, a) /\ Window(w, z, e)
  BY <1>2, <1>3 DEF Streams
<1>5. t \in Seq(U) /\ d \in Seq(U)
  BY Cuts
<1>6. CutAt(w, z, e, n)
  BY <1>4, WindowCuts
<1>7. Window(w, t, e) /\ Len(t) = n /\ Window(w, d, e + n)
  BY <1>6 DEF CutAt
<1> HIDE DEF t, d
<1>8. JoinAt(w, y, t, a)
  BY <1>3, <1>4, <1>5, <1>7, WindowJoins
<1>9. PICK l \in Nat : l = Len(y)
  BY <1>1
<1>10. Window(w, y \o t, a) /\ Len(y \o t) = l + n
  BY <1>7, <1>8, <1>9 DEF JoinAt
<1>11. a + (l + n) = e + n
  BY <1>2, <1>3, <1>9
<1> QED BY <1>1, <1>2, <1>3, <1>4, <1>7, <1>9, <1>10, <1>11 DEF Streams, Reached, t, d

\* A read of more of a line puts aside what is in the buffer and fills it again
\* (read_line).
LEMMA ReadPastBuffer ==
  ASSUME NEW w, Len(w) \in Nat, NEW U, NEW p, NEW x \in Seq(U), NEW y \in Seq(U), NEW z \in Seq(U),
         Streams(w, p, x, y, z), NEW n \in 0 .. Len(z)
  PROVE  /\ Streams(w, p, x \o y, Take(z, n), Drop(z, n))
         /\ Reached(p, x \o y, Take(z, n)) = Reached(p, x, y) + n
<1> DEFINE t == Take(z, n)
           d == Drop(z, n)
<1>1. p \in Nat /\ Len(x) \in Nat /\ Len(y) \in Nat
  BY DEF Streams
<1>2. PICK a \in Nat : a = p + Len(x)
  BY <1>1
<1>3. PICK e \in Nat : e = a + Len(y)
  BY <1>1, <1>2
<1>4. Window(w, x, p) /\ Window(w, y, a) /\ Window(w, z, e)
  BY <1>2, <1>3 DEF Streams
<1>6. CutAt(w, z, e, n)
  BY <1>4, WindowCuts
<1>7. Window(w, t, e) /\ Len(t) = n /\ Window(w, d, e + n)
  BY <1>6 DEF CutAt
<1> HIDE DEF t, d
<1>8. JoinAt(w, x, y, p)
  BY <1>2, <1>4, WindowJoins
<1>9. Window(w, x \o y, p) /\ Len(x \o y) = Len(x) + Len(y)
  BY <1>8 DEF JoinAt
<1>10. p + Len(x \o y) = e
  BY <1>1, <1>2, <1>3, <1>9
<1> QED BY <1>1, <1>2, <1>3, <1>7, <1>9, <1>10 DEF Streams, Reached, t, d

\* n units leave the buffer from its beginning.
BufferCut(w, p, y, z, n) ==
  /\ Streams(w, p + n, <<>>, Drop(y, n), z) /\ Window(w, Take(y, n), p)
  /\ Reached(p + n, <<>>, Drop(y, n)) = Reached(p, <<>>, y)
  /\ Len(Take(y, n)) = n

\* The parser takes n units from the buffer and stands after them.
LEMMA CutBuffer ==
  ASSUME NEW w, Len(w) \in Nat, NEW U, NEW p, NEW y, NEW z, y \in Seq(U), z \in Seq(U),
         Streams(w, p, <<>>, y, z), NEW n, n \in 0 .. Len(y)
  PROVE  BufferCut(w, p, y, z, n)
<1> DEFINE t == Take(y, n)
           d == Drop(y, n)
<1>0. Len(<<>>) = 0
  OBVIOUS
<1>1. PICK l \in Nat : l = Len(y)
  OBVIOUS
<1>2. p \in Nat /\ Window(w, y, p) /\ Window(w, z, p + l)
  BY <1>0, <1>1 DEF Streams
<1>3. d \in Seq(U)
  BY Cuts
<1>4. CutAt(w, y, p, n)
  BY <1>2, WindowCuts
<1>5. Window(w, t, p) /\ Len(t) = n /\ Window(w, d, p + n) /\ Len(d) = l - n
  BY <1>1, <1>4 DEF CutAt
<1> HIDE DEF t, d
<1>6. Window(w, <<>>, p + n)
  BY <1>3, <1>5, WindowNone
<1>7. (p + n) + (l - n) = p + l /\ p + n \in Nat /\ (p + n) + 0 = p + n /\ p + 0 = p
  BY <1>1, <1>2
<1> QED BY <1>0, <1>1, <1>2, <1>5, <1>6, <1>7 DEF Streams, Reached, BufferCut, t, d

\* With an empty buffer it takes n units from the wire (read_exact).
LEMMA CutWire ==
  ASSUME NEW w, Len(w) \in Nat, NEW U, NEW p, NEW z \in Seq(U),
         Streams(w, p, <<>>, <<>>, z), NEW n \in 0 .. Len(z)
  PROVE  /\ Streams(w, p + n, <<>>, <<>>, Drop(z, n)) /\ Window(w, Take(z, n), p)
         /\ Reached(p + n, <<>>, <<>>) = Reached(p, <<>>, <<>>) + n
         /\ Len(Take(z, n)) = n
<1> DEFINE t == Take(z, n)
           d == Drop(z, n)
<1>0. Len(<<>>) = 0
  OBVIOUS
<1>2. p \in Nat /\ Window(w, z, p)
  BY <1>0 DEF Streams
<1>3. d \in Seq(U)
  BY Cuts
<1>4. CutAt(w, z, p, n)
  BY <1>2, WindowCuts
<1>5. Window(w, t, p) /\ Len(t) = n /\ Window(w, d, p + n)
  BY <1>4 DEF CutAt
<1> HIDE DEF t, d
<1>6. Window(w, <<>>, p + n)
  BY <1>3, <1>5, WindowNone
<1>7. p + n \in Nat /\ (p + n) + 0 = p + n /\ p + 0 = p
  BY <1>2
<1> QED BY <1>0, <1>2, <1>5, <1>6, <1>7 DEF Streams, Reached, t, d

\* A line: what was put aside, and the buffer up to its end.
LineAt(w, p, x, y, z, l, t) ==
  /\ Streams(w, p + Len(t) + 1, <<>>, Drop(y, l), z)
  /\ Reached(p + Len(t) + 1, <<>>, Drop(y, l)) = Reached(p, x, y)
  /\ Window(w, t, p) /\ Len(t) = Len(x) + (l - 1) /\ Len(t) \in Nat
  /\ w[p + Len(t) + 1] = y[l]
  /\ \A j \in 1 .. Len(x) : t[j] = x[j]
  /\ \A j \in 1 .. l - 1 : t[Len(x) + j] = y[j]

\* The parser takes a line with its end and stands after it.
LEMMA CutLine ==
  ASSUME NEW w, Len(w) \in Nat, NEW U, NEW p, NEW x \in Seq(U), NEW y \in Seq(U), NEW z \in Seq(U),
         Streams(w, p, x, y, z), NEW l \in 1 .. Len(y)
  PROVE  LineAt(w, p, x, y, z, l, x \o Take(y, l - 1))
<1> DEFINE h == Take(y, l - 1)
           d == Drop(y, l)
           t == x \o h
<1>0. Len(<<>>) = 0 /\ l - 1 \in 0 .. Len(y) /\ l \in 0 .. Len(y)
  OBVIOUS
<1>1. PICK k \in Nat : k = Len(x)
  OBVIOUS
<1>2. PICK m \in Nat : m = Len(y)
  OBVIOUS
<1>3. p \in Nat
  BY DEF Streams
<1>4. PICK a \in Nat : a = p + Len(x)
  BY <1>1, <1>3
<1>5. Window(w, x, p) /\ Window(w, y, a) /\ Window(w, z, a + m)
  BY <1>2, <1>4 DEF Streams
<1>6. CutAt(w, y, a, l - 1)
  BY <1>0, <1>5, WindowCuts
<1>7. CutAt(w, y, a, l)
  BY <1>0, <1>5, WindowCuts
<1>8. Window(w, h, a) /\ Len(h) = l - 1
  BY <1>6 DEF CutAt
<1>9. Window(w, d, a + l) /\ Len(d) = m - l
  BY <1>2, <1>7 DEF CutAt
<1>10. h \in Seq(U) /\ d \in Seq(U)
  BY <1>0, Cuts
<1>11. \A j \in 1 .. l - 1 : h[j] = y[j]
  BY <1>0 DEF Take
<1> HIDE DEF h, d
<1>12. JoinAt(w, x, h, p)
  BY <1>4, <1>5, <1>8, <1>10, WindowJoins
<1>13. /\ \A j \in 1 .. Len(x) : t[j] = x[j]
       /\ \A j \in 1 .. Len(h) : t[Len(x) + j] = h[j]
  BY <1>10, JoinedParts
<1> HIDE DEF t
<1>14. Window(w, t, p) /\ Len(t) = Len(x) + Len(h)
  BY <1>12 DEF JoinAt, t
<1>15. PICK g \in Nat : g = l - 1
  OBVIOUS
<1>16. Len(t) = k + g
  BY <1>1, <1>8, <1>14, <1>15
<1>17. l \in Nat /\ l = g + 1
  BY <1>15
<1>18. p + Len(t) + 1 = a + l /\ a + l \in Nat
  BY <1>1, <1>3, <1>4, <1>16, <1>17
<1>19. Window(w, <<>>, a + l)
  BY <1>9, <1>10, WindowNone
<1>20. (a + l) + 0 = a + l /\ (a + l) + (m - l) = a + m
  BY <1>17
<1>21. Streams(w, a + l, <<>>, d, z) /\ Reached(a + l, <<>>, d) = Reached(p, x, y)
  BY <1>0, <1>2, <1>4, <1>5, <1>9, <1>18, <1>19, <1>20 DEF Streams, Reached
<1>22. y[l] = w[a + l]
  BY <1>5 DEF Window
<1>23. Len(t) \in Nat /\ Len(t) = Len(x) + (l - 1)
  BY <1>1, <1>15, <1>16
<1>24. \A j \in 1 .. l - 1 : t[Len(x) + j] = y[j]
  BY <1>8, <1>11, <1>13
<1>25. LineAt(w, p, x, y, z, l, t)
  BY <1>13, <1>14, <1>18, <1>21, <1>22, <1>23, <1>24 DEF LineAt, d
<1> QED BY <1>25 DEF t, h

\* The buffer is emptied.
BufferReset(w, p, y, z) ==
  /\ Streams(w, p + Len(y), <<>>, <<>>, z) /\ p + Len(y) \in Nat
  /\ Reached(p + Len(y), <<>>, <<>>) = Reached(p, <<>>, y)
  /\ p + Len(y) = Reached(p, <<>>, y)

\* parser.reset(): the parser stands after what the buffer held.
LEMMA ResetBuffer ==
  ASSUME NEW w, Len(w) \in Nat, NEW U, NEW p, NEW y, NEW z, y \in Seq(U), z \in Seq(U),
         Streams(w, p, <<>>, y, z)
  PROVE  BufferReset(w, p, y, z)
<1>0. Len(<<>>) = 0
  OBVIOUS
<1>2. PICK n \in Nat : n = Len(y)
  OBVIOUS
<1>3. p \in Nat /\ Window(w, z, p + n)
  BY <1>0, <1>2 DEF Streams
<1>4. Window(w, <<>>, p + n)
  BY <1>3, WindowNone
<1>5. (p + n) + 0 = p + n /\ p + 0 = p /\ p + n \in Nat
  BY <1>3
<1> QED BY <1>0, <1>2, <1>3, <1>4, <1>5 DEF Streams, Reached, BufferReset

\* A client that closes may leave units unsent.
LEMMA ClientCut ==
  ASSUME NEW w, Len(w) \in Nat, NEW U, NEW p, NEW x \in Seq(U), NEW y \in Seq(U), NEW z \in Seq(U),
         Streams(w, p, x, y, z), NEW n \in 0 .. Len(z)
  PROVE  Streams(w, p, x, y, Take(z, n))
<1>1. PICK e \in Nat : e = p + Len(x) + Len(y)
  BY DEF Streams
<1>2. Window(w, z, e)
  BY <1>1 DEF Streams
<1>3. CutAt(w, z, e, n)
  BY <1>2, WindowCuts
<1>4. Window(w, Take(z, n), e)
  BY <1>3 DEF CutAt
<1> QED BY <1>1, <1>4 DEF Streams

\* Where the last request ends that a sequential client may have sent.
Bound(s, r) == End(s, Least(Len(s), r + 1))

\* Every request up to the next ends within Bound.
LEMMA BoundType ==
  ASSUME NEW s \in Seq(Requests), NEW r \in Nat
  PROVE  /\ Bound(s, r) \in Nat
         /\ \A j \in 0 .. Len(s) : j <= r + 1 => End(s, j) <= Bound(s, r)
<1>1. /\ Len(s) \in Nat
      /\ \A i \in 0 .. Len(s) : End(s, i) \in Nat
      /\ \A i, j \in 0 .. Len(s) : i <= j => End(s, i) <= End(s, j)
  BY SentShape
<1>2. PICK l \in 0 .. Len(s) : l = Least(Len(s), r + 1) /\ (l = Len(s) \/ l = r + 1)
  BY <1>1 DEF Least
<1>3. \A j \in 0 .. Len(s) : j <= r + 1 => j <= l
  BY <1>1, <1>2
<1> QED BY <1>1, <1>2, <1>3 DEF Bound

\* The units of wire that may be read are of requests up to the next.
LEMMA ArrivedIs ==
  ASSUME ConnType, client = "sequential"
  PROVE  \A i \in 1 .. Arrived : i \in 1 .. Len(wire) /\ ~(wire[i][2] > Len(responses) + 1)
<1> DEFINE I == {i \in 1 .. Len(wire) : wire[i][2] > Len(responses) + 1}
<1>1. PICK n \in Nat : n = Len(wire)
  BY DEF ConnType
<1>2. PICK z : z = IF I # {} THEN Min(I) ELSE 0
  OBVIOUS
<1>3. Arrived = IF z = 0 THEN n ELSE z - 1
  BY <1>1, <1>2 DEF Arrived, SelectInSeq
<1>4. I \subseteq 1 .. n
  BY <1>1
<1>5. /\ z \in 0 .. n /\ (z = 0 <=> I = {})
      /\ z # 0 => z \in I /\ \A i \in I : z <= i
  <2> HIDE DEF I
  <2> QED BY <1>2, <1>4, SelectedFirst
<1>6. SUFFICES ASSUME NEW i \in 1 .. Arrived PROVE i \in 1 .. n /\ i \notin I
  BY <1>1
<1> HIDE DEF I
<1>7. CASE z = 0
  BY <1>3, <1>5, <1>6, <1>7
<1>8. CASE z # 0
  <2>1. i \in 1 .. n /\ ~(z <= i)
    BY <1>3, <1>5, <1>6, <1>8
  <2> QED BY <1>5, <1>8, <2>1
<1> QED BY <1>7, <1>8

\* A read does not go beyond what a sequential client may have sent.
LEMMA ReadBound ==
  ASSUME ConnType, client = "sequential", NEW a \in Nat, Window(Sent(script), wire, a),
         a <= Bound(script, Len(responses)), NEW n \in 0 .. Arrived
  PROVE  a + n <= Bound(script, Len(responses))
<1>1. PICK r \in Nat : r = Len(responses)
  BY DEF ConnType
<1>2. PICK s \in Seq(Requests) : s = script
  BY DEF ConnType
<1>3. PICK e \in Nat : e = Bound(script, Len(responses)) /\ e = Bound(s, r)
  BY <1>1, <1>2, BoundType
<1>4. CASE n = 0
  BY <1>4
<1>5. CASE n # 0
  <2>1. Arrived \in Nat
    BY ArrivedBound
  <2>2. n \in 1 .. Arrived
    BY <1>5, <2>1
  <2>3. n \in 1 .. Len(wire) /\ ~(wire[n][2] > r + 1)
    BY <1>1, <2>2, ArrivedIs
  <2>4. a + Len(wire) <= Len(Sent(s)) /\ wire[n] = Sent(s)[a + n]
    BY <1>2, <2>3 DEF Window
  <2>5. Len(Sent(s)) \in Nat /\ Len(wire) \in Nat
    BY SentShape DEF ConnType
  <2>6. a + n \in 1 .. Len(Sent(s))
    BY <2>3, <2>4, <2>5
  <2>7. PICK k \in 1 .. Len(s) : End(s, k - 1) < a + n /\ a + n <= End(s, k)
    BY <2>6, SentShape
  <2>8. End(s, k - 1) \in Nat /\ End(s, k) \in Nat /\ \A x \in End(s, k - 1) + 1 .. End(s, k) : Sent(s)[x][2] = k
    BY Request
  <2>9. a + n \in End(s, k - 1) + 1 .. End(s, k)
    BY <2>6, <2>7, <2>8
  <2>10. Sent(s)[a + n][2] = k
    BY <2>8, <2>9
  <2>11. k <= r + 1 /\ k \in 0 .. Len(s)
    BY <2>3, <2>4, <2>10
  <2>12. End(s, k) <= Bound(s, r)
    BY <2>11, BoundType
  <2> QED BY <1>3, <2>6, <2>7, <2>8, <2>12
<1> QED BY <1>4, <1>5

(***************************************************************************)
(* The inductive invariant.  While a connection is served there is a       *)
(* position of the stream where the parser stands, as its stage says, and  *)
(* the bytes that are put aside, buffered and on the wire follow it.  With *)
(* kimojio, whose parser is emptied after each response, nothing of a      *)
(* later request has been read by then.  Nothing of the stream is lost     *)
(* before its end is seen.                                                 *)
(***************************************************************************)

\* The stages in which the parser goes on.
Working == {"headers", "fixed", "size", "chunk", "crlf", "last", "handle", "write"}

\* Where the parser stands at p in each stage, n requests being handled.
Stand(st, s, n, k, p, b, nd) ==
  /\ st = "headers" => Done(s, p, n)
  /\ st = "fixed" => AtFixed(s, k, p, b, nd)
  /\ st = "size" => AtSize(s, k, p, b)
  /\ st = "chunk" => AtChunk(s, k, p, b, nd)
  /\ st = "crlf" => AtChunk(s, k, p, b, 0)
  /\ st = "last" => AtLast(s, k, p, b)
  /\ st = "handle" => Whole(s, k, p, b)
  /\ st = "write" => Done(s, p, k) /\ k = n
  /\ st \in {"fixed", "size", "chunk", "crlf", "last", "handle"} => k = n + 1

\* The client of a kimojio server waits for the response: what is read (up to f)
\* is of no request after the next.
InTurn(who, s, r, f) == who = "kimojio" => f <= Bound(s, r)

\* Until the client closes (e), what is read, up to f, and what is on the wire, z,
\* is the whole stream: nothing of it is lost.
AllThere(s, f, e, z) == e \/ f + Len(z) = Len(Sent(s))

\* Both.
Kept(who, s, r, f, e, z) == InTurn(who, s, r, f) /\ AllThere(s, f, e, z)

\* The parser stands at p.
PlacedAt(p) ==
  /\ Stand(stage, script, Len(handled), cur, p, body, need)
  /\ Streams(Sent(script), p, line, buf, wire)
  /\ Kept(impl, script, Len(responses), Reached(p, line, buf), eof, wire)

\* Only what was read of an unfinished line is put aside.
LineSoFar ==
  /\ stage \notin {"size", "crlf", "last"} => line = <<>>
  /\ \A j \in 1 .. Len(line) : line[j][1] # "nl"

\* There is a place where the parser stands.
Following ==
  impl # "echo" /\ stage \in Working => LineSoFar /\ \E p \in Nat : PlacedAt(p)

\* The clients are honest, and what was handled so far are the first requests,
\* each with its body.
Basis ==
  /\ \A k \in 1 .. Len(script) : Honest(script[k], k)
  /\ impl = "kimojio" => client = "sequential"
  /\ impl # "echo" => Len(handled) <= Len(script)
  /\ HandledAsSent

\* A head is refused as too large only when it is, and then the server stops.
Refusals ==
  /\ error = "too_large" => impl # "echo" /\ stage \in {"bad_request", "closed"}
  /\ OnlyOversizeRefused

\* The inductive invariant of HandledAsSent and OnlyOversizeRefused.
Followed == Answering /\ Basis /\ Refusals /\ Following

\* A step that neither handles nor answers.
Same == UNCHANGED <<impl, client, script, handled, responses>>

\* A step that neither handles nor answers keeps Basis.
LEMMA SameBasis == ASSUME Basis, Same PROVE Basis'
  BY DEF Basis, Same, HandledAsSent

\* A step that refuses no head as too large keeps Refusals.
LEMMA SameRefusals ==
  ASSUME Refusals, Same, stage \notin {"bad_request", "closed"}, error' = error \/ error' # "too_large"
  PROVE  Refusals'
  BY DEF Refusals, OnlyOversizeRefused

\* A place for the next state.
LEMMA FollowingAgain ==
  ASSUME NEW p \in Nat,
         Stand(stage', script', Len(handled'), cur', p, body', need'),
         Streams(Sent(script'), p, line', buf', wire'),
         Kept(impl', script', Len(responses'), Reached(p, line', buf'), eof', wire'),
         stage' \notin {"size", "crlf", "last"} => line' = <<>>,
         \A j \in 1 .. Len(line') : line'[j][1] # "nl"
  PROVE  Following'
<1>1. PlacedAt(p)'
  BY DEF PlacedAt
<1>2. LineSoFar'
  BY DEF LineSoFar
<1> QED BY <1>1, <1>2 DEF Following

\* The next head is found.
LEMMA ParseFollowed ==
  ASSUME Followed, impl # "echo", ParseHeaders PROVE Following'
<1>0. ConnType /\ Basis
  BY DEF Followed, Answering
<1>1. stage = "headers" /\ httparse(buf).status = "complete"
  BY DEF ParseHeaders
<1>2. line = <<>> /\ \E p \in Nat : PlacedAt(p)
  BY <1>1 DEF Followed, Following, Working, LineSoFar
<1>3. PICK p \in Nat : PlacedAt(p)
  BY <1>2
<1>4. PICK s \in Seq(Requests) : s = script
  BY <1>0 DEF ConnType
<1>5. PICK n : n = Len(handled)
  OBVIOUS
<1>6. PICK b \in Seq(Units) : b = buf
  BY <1>0 DEF ConnType
<1>7. PICK z \in Seq(Units) : z = wire
  BY <1>0 DEF ConnType
<1>8. Done(s, p, n) /\ Streams(Sent(s), p, <<>>, b, z)
  BY <1>1, <1>2, <1>3, <1>4, <1>5, <1>6, <1>7 DEF PlacedAt, Stand
<1>9. Window(Sent(s), b, p)
  <2>1. p + Len(<<>>) = p
    BY <1>3
  <2> QED BY <1>8, <2>1 DEF Streams
<1>10. PICK k : k = n + 1
  OBVIOUS
<1>11. PICK l : l = httparse(b).len
  OBVIOUS
<1>12. /\ k \in 1 .. Len(s) /\ s[k].bad # "head" /\ l \in 1 .. Len(b) /\ p + l = HeadEnd(s, k)
       /\ b[l][2] = k
  BY <1>1, <1>6, <1>8, <1>9, <1>10, <1>11, HeadFound
<1>13. Usable(s, k) /\ l \in 0 .. Len(b) /\ p + l \in Nat
  BY <1>3, <1>12 DEF Usable
<1>14. Len(Sent(s)) \in Nat
  BY SentShape
<1>15. /\ Streams(Sent(s), p + l, <<>>, Drop(b, l), z)
       /\ Reached(p + l, <<>>, Drop(b, l)) = Reached(p, <<>>, b)
  <2>1. BufferCut(Sent(s), p, b, z, l)
    BY <1>8, <1>13, <1>14, CutBuffer
  <2> QED BY <2>1 DEF BufferCut
<1>16. /\ buf' = Drop(b, l) /\ cur' = k /\ body' = <<>> /\ line' = <<>> /\ wire' = z /\ script' = s
       /\ need' = IF ~s[k].chunked /\ s[k].length # NoLength THEN s[k].length ELSE 0
       /\ stage' = IF s[k].chunked THEN "size" ELSE IF s[k].length # NoLength THEN "fixed" ELSE "handle"
       /\ handled' = handled /\ responses' = responses /\ impl' = impl /\ eof' = eof
  BY <1>4, <1>6, <1>7, <1>11, <1>12 DEF ParseHeaders, is_chunked, get_content_length, clientVars, resultVars
<1>17. Kept(impl', script', Len(responses'), Reached(p + l, line', buf'), eof', wire')
  BY <1>2, <1>3, <1>4, <1>6, <1>7, <1>15, <1>16 DEF PlacedAt
<1>18. Honest(s[k], k)
  BY <1>0, <1>4, <1>12 DEF Basis
<1>19. Stand(stage', script', Len(handled'), cur', p + l, body', need')
  <2>1. CASE s[k].chunked
    <3>1. AtSize(s, k, p + l, <<>>)
      BY <1>12, <1>13, <2>1, StartSize
    <3> QED BY <1>5, <1>10, <1>16, <2>1, <3>1 DEF Stand
  <2>2. CASE ~s[k].chunked /\ s[k].length # NoLength
    <3>1. AtFixed(s, k, p + l, <<>>, s[k].length)
      BY <1>12, <1>13, <1>18, <2>2, StartFixed
    <3> QED BY <1>5, <1>10, <1>16, <2>2, <3>1 DEF Stand
  <2>3. CASE ~s[k].chunked /\ s[k].length = NoLength
    <3>1. Whole(s, k, p + l, <<>>)
      BY <1>12, <1>13, <2>3, StartPlain
    <3> QED BY <1>5, <1>10, <1>16, <2>3, <3>1 DEF Stand
  <2> QED BY <2>1, <2>2, <2>3
<1>20. Streams(Sent(script'), p + l, line', buf', wire')
  BY <1>15, <1>16
<1>21. line' = <<>> /\ \A j \in 1 .. Len(line') : line'[j][1] # "nl"
  BY <1>16
<1> QED BY <1>13, <1>17, <1>19, <1>20, <1>21, FollowingAgain

\* A sequential client has not sent what it waits to send.
LEMMA InTurnRead ==
  ASSUME ConnType, Basis, NEW p \in Nat, PlacedAt(p), NEW space \in Int, NEW n \in ReadCounts(space)
  PROVE  InTurn(impl, script, Len(responses), Reached(p, line, buf) + n)
<1>1. SUFFICES ASSUME impl = "kimojio"
               PROVE  Reached(p, line, buf) + n <= Bound(script, Len(responses))
  BY DEF InTurn
<1>2. client = "sequential"
  BY <1>1 DEF Basis
<1>3. Len(line) \in Nat /\ Len(buf) \in Nat
  BY DEF ConnType
<1>4. PICK a \in Nat : a = Reached(p, line, buf)
  BY <1>3 DEF Reached
<1>5. Window(Sent(script), wire, a) /\ a <= Bound(script, Len(responses))
  BY <1>1, <1>4 DEF PlacedAt, Streams, Reached, Kept, InTurn
<1>6. n \in 0 .. Arrived
  <2>1. PICK b \in Nat : b = Arrived
    BY ArrivedBound
  <2>2. n \in 1 .. (IF space < b THEN space ELSE b)
    BY <2>1 DEF ReadCounts, Least
  <2> QED BY <2>1, <2>2
<1> QED BY <1>2, <1>4, <1>5, <1>6, ReadBound

\* What a read takes off the wire is counted as read.
LEMMA KeptRead ==
  ASSUME ConnType, Basis, NEW p \in Nat, PlacedAt(p), NEW space \in Int, NEW n \in ReadCounts(space)
  PROVE  Kept(impl, script, Len(responses), Reached(p, line, buf) + n, eof, Drop(wire, n))
<1>1. InTurn(impl, script, Len(responses), Reached(p, line, buf) + n)
  BY InTurnRead
<1>2. line \in Seq(Units) /\ buf \in Seq(Units) /\ wire \in Seq(Units) /\ n \in 0 .. Len(wire)
  BY ReadType DEF ConnType
<1>3. PICK f \in Nat : f = Reached(p, line, buf)
  <2>1. Len(line) \in Nat /\ Len(buf) \in Nat
    BY <1>2
  <2> QED BY <2>1 DEF Reached
<1>4. PICK l \in Nat : l = Len(wire)
  BY <1>2
<1>5. Len(Drop(wire, n)) = l - n
  BY <1>2, <1>4 DEF Drop
<1>6. eof \/ f + l = Len(Sent(script))
  BY <1>3, <1>4 DEF PlacedAt, Kept, AllThere
<1>7. (f + n) + (l - n) = f + l
  BY <1>2
<1>8. AllThere(script, f + n, eof, Drop(wire, n))
  BY <1>5, <1>6, <1>7 DEF AllThere
<1> QED BY <1>1, <1>3, <1>8 DEF Kept

\* The script's stream is a sequence of units.
LEMMA WireLen == ASSUME ConnType PROVE Len(Sent(script)) \in Nat /\ script \in Seq(Requests)
<1>1. script \in Seq(Requests)
  BY DEF ConnType
<1> QED BY <1>1, SentShape

\* More of the stream comes into the buffer.
LEMMA MoreFollowed ==
  ASSUME Followed, impl # "echo", stage = "headers", NEW space \in Int, NEW n \in ReadCounts(space),
         buf' = buf \o Take(wire, n), wire' = Drop(wire, n),
         UNCHANGED <<impl, script, eof, stage, cur, body, line, need, handled, responses>>
  PROVE  Following'
<1>0. ConnType /\ Basis
  BY DEF Followed, Answering
<1>1. LineSoFar /\ \E p \in Nat : PlacedAt(p)
  BY DEF Followed, Following, Working
<1>2. PICK p \in Nat : PlacedAt(p)
  BY <1>1
<1>3. line \in Seq(Units) /\ buf \in Seq(Units) /\ wire \in Seq(Units) /\ n \in 0 .. Len(wire)
  BY <1>0, ReadType DEF ConnType
<1>4. Streams(Sent(script), p, line, buf, wire)
  BY <1>2 DEF PlacedAt
<1>5. /\ Streams(Sent(script), p, line, buf \o Take(wire, n), Drop(wire, n))
      /\ Reached(p, line, buf \o Take(wire, n)) = Reached(p, line, buf) + n
  BY <1>0, <1>3, <1>4, WireLen, ReadIntoBuffer
<1>6. Kept(impl, script, Len(responses), Reached(p, line, buf) + n, eof, Drop(wire, n))
  BY <1>0, <1>2, KeptRead
<1>7. Stand(stage, script, Len(handled), cur, p, body, need)
  BY <1>2 DEF PlacedAt
<1>8. Stand(stage', script', Len(handled'), cur', p, body', need')
  BY <1>7
<1>9. Streams(Sent(script'), p, line', buf', wire')
  BY <1>5
<1>10. Kept(impl', script', Len(responses'), Reached(p, line', buf'), eof', wire')
  BY <1>5, <1>6
<1>11. (stage' \notin {"size", "crlf", "last"} => line' = <<>>) /\ \A j \in 1 .. Len(line') : line'[j][1] # "nl"
  BY <1>1 DEF LineSoFar
<1> QED BY <1>8, <1>9, <1>10, <1>11, FollowingAgain

\* The parser stands further on in the body.
LEMMA StandOn ==
  ASSUME NEW s \in Seq(Requests), NEW st \in {"fixed", "chunk"}, NEW n, NEW k, NEW p \in Nat, NEW U,
         NEW b \in Seq(U), NEW nd, NEW t \in Seq(U), Stand(st, s, n, k, p, b, nd), Window(Sent(s), t, p),
         Len(t) <= nd
  PROVE  Stand(st, s, n, k, p + Len(t), b \o t, nd - Len(t))
<1>1. Usable(s, k) /\ Reads(s, k, p, b, nd) /\ k = n + 1
  BY DEF Stand, AtFixed, AtChunk
<1>2. k \in 1 .. Len(s)
  BY <1>1 DEF Usable
<1>3. /\ Reads(s, k, p + Len(t), b \o t, nd - Len(t))
      /\ Len(b \o t) + (nd - Len(t)) = Len(b) + nd
      /\ (p + Len(t)) + (nd - Len(t)) = p + nd
  <2>1. Further(s, k, p, b, nd, t)
    BY <1>1, <1>2, ReadsOn
  <2> QED BY <2>1 DEF Further
<1>4. CASE st = "fixed"
  <2>1. AtFixed(s, k, p, b, nd)
    BY <1>4 DEF Stand
  <2>2. AtFixed(s, k, p + Len(t), b \o t, nd - Len(t))
    BY <1>3, <2>1 DEF AtFixed
  <2> QED BY <1>1, <1>4, <2>2 DEF Stand
<1>5. CASE st = "chunk"
  <2>1. AtChunk(s, k, p, b, nd)
    BY <1>5 DEF Stand
  <2>2. AtChunk(s, k, p + Len(t), b \o t, nd - Len(t))
    BY <1>3, <2>1 DEF AtChunk
  <2> QED BY <1>1, <1>5, <2>2 DEF Stand
<1> QED BY <1>4, <1>5

\* The body takes from the buffer ...
LEMMA FromBufferFollowed ==
  ASSUME Followed, impl # "echo", FromBuffer PROVE Following'
<1>0. ConnType /\ Basis
  BY DEF Followed, Answering
<1>1. stage \in {"fixed", "chunk"}
  BY DEF FromBuffer
<1>2. line = <<>> /\ \E p \in Nat : PlacedAt(p)
  BY <1>1 DEF Followed, Following, Working, LineSoFar
<1>3. PICK p \in Nat : PlacedAt(p)
  BY <1>2
<1>4. buf \in Seq(Units) /\ wire \in Seq(Units) /\ body \in Seq(Units) /\ need \in Nat /\ Len(buf) \in Nat
  BY <1>0 DEF ConnType
<1>5. PICK n \in 0 .. Len(buf) : n = Least(Len(buf), need) /\ n <= need
  BY <1>4 DEF Least
<1>6. /\ body' = body \o Take(buf, n) /\ buf' = Drop(buf, n) /\ need' = need - n
      /\ UNCHANGED <<impl, script, wire, eof, stage, cur, line, handled, responses>>
  BY <1>5 DEF FromBuffer, clientVars, resultVars
<1>7. Streams(Sent(script), p, <<>>, buf, wire)
  BY <1>2, <1>3 DEF PlacedAt
<1>8. /\ Streams(Sent(script), p + n, <<>>, Drop(buf, n), wire) /\ Window(Sent(script), Take(buf, n), p)
      /\ Reached(p + n, <<>>, Drop(buf, n)) = Reached(p, <<>>, buf) /\ Len(Take(buf, n)) = n
  <2>1. n \in 0 .. Len(buf) /\ Len(Sent(script)) \in Nat /\ buf \in Seq(Units) /\ wire \in Seq(Units)
    BY <1>0, <1>4, <1>5, WireLen
  <2>2. BufferCut(Sent(script), p, buf, wire, n)
    BY <1>7, <2>1, CutBuffer
  <2> QED BY <2>2 DEF BufferCut
<1>9. Take(buf, n) \in Seq(Units)
  BY <1>4, Cuts
<1>10. Stand(stage, script, Len(handled), cur, p, body, need)
  BY <1>3 DEF PlacedAt
<1>a. PICK t \in Seq(Units) : t = Take(buf, n) /\ Len(t) = n /\ Window(Sent(script), t, p)
  BY <1>8, <1>9
<1>11. Stand(stage, script, Len(handled), cur, p + Len(t), body \o t, need - Len(t))
  <2>1. Len(t) <= need
    BY <1>5, <1>a
  <2>2. script \in Seq(Requests)
    BY <1>0, WireLen
  <2> QED BY <1>1, <1>4, <1>10, <1>a, <2>1, <2>2, StandOn
<1>12. Stand(stage', script', Len(handled'), cur', p + n, body', need')
  BY <1>6, <1>11, <1>a
<1>13. Streams(Sent(script'), p + n, line', buf', wire')
  BY <1>2, <1>6, <1>8
<1>14. Kept(impl', script', Len(responses'), Reached(p + n, line', buf'), eof', wire')
  BY <1>2, <1>3, <1>6, <1>8 DEF PlacedAt
<1>15. line' = <<>> /\ \A j \in 1 .. Len(line') : line'[j][1] # "nl"
  BY <1>2, <1>6
<1>16. p + n \in Nat
  BY <1>4, <1>5
<1> QED BY <1>12, <1>13, <1>14, <1>15, <1>16, FollowingAgain

\* ... and then from the stream.
LEMMA ExactFollowed ==
  ASSUME Followed, impl # "echo", stage \in {"fixed", "chunk"}, buf = <<>>,
         NEW space \in Int, space <= need, NEW n \in ReadCounts(space),
         body' = body \o Take(wire, n), wire' = Drop(wire, n), need' = need - n,
         UNCHANGED <<impl, script, eof, buf, stage, cur, line, handled, responses>>
  PROVE  Following'
<1>0. ConnType /\ Basis
  BY DEF Followed, Answering
<1>2. line = <<>> /\ \E p \in Nat : PlacedAt(p)
  BY DEF Followed, Following, Working, LineSoFar
<1>3. PICK p \in Nat : PlacedAt(p)
  BY <1>2
<1>4. wire \in Seq(Units) /\ body \in Seq(Units) /\ need \in Nat
  BY <1>0 DEF ConnType
<1>5. n \in 0 .. Len(wire) /\ n <= space /\ n \in Nat /\ Take(wire, n) \in Seq(Units)
  BY <1>0, ReadType
<1>7. Streams(Sent(script), p, <<>>, <<>>, wire)
  BY <1>2, <1>3 DEF PlacedAt
<1>8. /\ Streams(Sent(script), p + n, <<>>, <<>>, Drop(wire, n)) /\ Window(Sent(script), Take(wire, n), p)
      /\ Reached(p + n, <<>>, <<>>) = Reached(p, <<>>, <<>>) + n /\ Len(Take(wire, n)) = n
  BY <1>0, <1>4, <1>5, <1>7, WireLen, CutWire
<1>10. Stand(stage, script, Len(handled), cur, p, body, need)
  BY <1>3 DEF PlacedAt
<1>a. PICK t \in Seq(Units) : t = Take(wire, n) /\ Len(t) = n /\ Window(Sent(script), t, p)
  BY <1>5, <1>8
<1>11. Stand(stage, script, Len(handled), cur, p + Len(t), body \o t, need - Len(t))
  <2>1. Len(t) <= need
    BY <1>4, <1>5, <1>a
  <2>2. script \in Seq(Requests)
    BY <1>0, WireLen
  <2> QED BY <1>4, <1>10, <1>a, <2>1, <2>2, StandOn
<1>12. Stand(stage', script', Len(handled'), cur', p + n, body', need')
  BY <1>11, <1>a
<1>13. Streams(Sent(script'), p + n, line', buf', wire')
  BY <1>2, <1>8
<1>b. Kept(impl, script, Len(responses), Reached(p, line, buf) + n, eof, Drop(wire, n))
  BY <1>0, <1>3, KeptRead
<1>14. Kept(impl', script', Len(responses'), Reached(p + n, line', buf'), eof', wire')
  BY <1>2, <1>8, <1>b
<1>15. line' = <<>> /\ \A j \in 1 .. Len(line') : line'[j][1] # "nl"
  BY <1>2
<1>16. p + n \in Nat
  BY <1>5
<1> QED BY <1>12, <1>13, <1>14, <1>15, <1>16, FollowingAgain

\* A body or chunk with no missing unit is left: for the handler, or for the end
\* of the chunk.
LEMMA ExactDoneFollowed ==
  ASSUME Followed, impl # "echo", ExactDone PROVE Following'
<1>0. ConnType
  BY DEF Followed, Answering
<1>1. /\ stage \in {"fixed", "chunk"} /\ need = 0
      /\ stage' = IF stage = "fixed" THEN "handle" ELSE "crlf"
      /\ UNCHANGED <<impl, script, wire, eof, buf, cur, body, line, need, handled, responses>>
  BY DEF ExactDone, clientVars, resultVars
<1>2. line = <<>> /\ \E p \in Nat : PlacedAt(p)
  BY <1>1 DEF Followed, Following, Working, LineSoFar
<1>3. PICK p \in Nat : PlacedAt(p)
  BY <1>2
<1>4. body \in Seq(Units) /\ script \in Seq(Requests)
  BY <1>0 DEF ConnType
<1>5. /\ Stand(stage, script, Len(handled), cur, p, body, 0)
      /\ Streams(Sent(script), p, line, buf, wire)
      /\ Kept(impl, script, Len(responses), Reached(p, line, buf), eof, wire)
  BY <1>1, <1>3 DEF PlacedAt
<1>6. Stand(stage', script, Len(handled), cur, p, body, 0)
  <2>1. CASE stage = "fixed"
    <3>1. AtFixed(script, cur, p, body, 0) /\ cur = Len(handled) + 1
      BY <1>5, <2>1 DEF Stand
    <3>2. Whole(script, cur, p, body)
      BY <1>4, <3>1, EndFixed
    <3> QED BY <1>1, <2>1, <3>1, <3>2 DEF Stand
  <2>2. CASE stage = "chunk"
    BY <1>1, <1>5, <2>2 DEF Stand
  <2> QED BY <1>1, <2>1, <2>2
<1>7. Stand(stage', script', Len(handled'), cur', p, body', need')
  BY <1>1, <1>6
<1>8. /\ Streams(Sent(script'), p, line', buf', wire')
      /\ Kept(impl', script', Len(responses'), Reached(p, line', buf'), eof', wire')
  BY <1>1, <1>5
<1>9. line' = <<>> /\ \A j \in 1 .. Len(line') : line'[j][1] # "nl"
  BY <1>1, <1>2
<1> QED BY <1>7, <1>8, <1>9, FollowingAgain

\* A line that does not end in the buffer is put aside.
LEMMA AsideFollowed ==
  ASSUME Followed, impl # "echo", stage \in {"size", "crlf", "last"}, LineEnd = 0,
         NEW space \in Int, NEW n \in ReadCounts(space),
         line' = line \o buf, buf' = Take(wire, n), wire' = Drop(wire, n),
         UNCHANGED <<impl, script, eof, stage, cur, body, need, handled, responses>>
  PROVE  Following'
<1>0. ConnType /\ Basis
  BY DEF Followed, Answering
<1>1. LineSoFar /\ \E p \in Nat : PlacedAt(p)
  BY DEF Followed, Following, Working
<1>2. PICK p \in Nat : PlacedAt(p)
  BY <1>1
<1>3. line \in Seq(Units) /\ buf \in Seq(Units) /\ wire \in Seq(Units) /\ n \in 0 .. Len(wire)
  BY <1>0, ReadType DEF ConnType
<1>4. Streams(Sent(script), p, line, buf, wire)
  BY <1>2 DEF PlacedAt
<1>5. /\ Streams(Sent(script), p, line \o buf, Take(wire, n), Drop(wire, n))
      /\ Reached(p, line \o buf, Take(wire, n)) = Reached(p, line, buf) + n
  BY <1>0, <1>3, <1>4, WireLen, ReadPastBuffer
<1>6. Kept(impl, script, Len(responses), Reached(p, line, buf) + n, eof, Drop(wire, n))
  BY <1>0, <1>2, KeptRead
<1>7. Stand(stage, script, Len(handled), cur, p, body, need)
  BY <1>2 DEF PlacedAt
<1>8. Stand(stage', script', Len(handled'), cur', p, body', need')
  BY <1>7
<1>9. Streams(Sent(script'), p, line', buf', wire')
  BY <1>5
<1>10. Kept(impl', script', Len(responses'), Reached(p, line', buf'), eof', wire')
  BY <1>5, <1>6
<1>11. \A j \in 1 .. Len(line') : line'[j][1] # "nl"
  <2> DEFINE y == line \o buf
  <2>1. /\ Len(y) = Len(line) + Len(buf) /\ Len(line) \in Nat /\ Len(buf) \in Nat
        /\ \A j \in 1 .. Len(line) : y[j] = line[j]
        /\ \A j \in 1 .. Len(buf) : y[Len(line) + j] = buf[j]
    BY <1>3, JoinedParts
  <2>2. \A i \in 1 .. Len(buf) : buf[i][1] # "nl"
    BY <1>3, LineEndIs
  <2>3. \A j \in 1 .. Len(line) : line[j][1] # "nl"
    BY <1>1 DEF LineSoFar
  <2>4. line' = y
    OBVIOUS
  <2> HIDE DEF y
  <2>5. PICK k \in Nat : k = Len(line)
    BY <2>1
  <2>6. PICK m \in Nat : m = Len(buf)
    BY <2>1
  <2>7. /\ Len(y) = k + m /\ (\A j \in 1 .. k : y[j][1] # "nl")
        /\ \A j \in 1 .. m : y[k + j][1] # "nl"
    BY <2>1, <2>2, <2>3, <2>5, <2>6
  <2>8. ASSUME NEW j \in 1 .. k + m PROVE y[j][1] # "nl"
    <3>1. CASE j <= k
      BY <2>7, <3>1
    <3>2. CASE j > k
      <4>1. j - k \in 1 .. m /\ k + (j - k) = j
        BY <3>2
      <4> QED BY <2>7, <4>1
    <3> QED BY <3>1, <3>2
  <2> QED BY <2>4, <2>7, <2>8
<1>12. stage' \notin {"size", "crlf", "last"} => line' = <<>>
  OBVIOUS
<1> QED BY <1>8, <1>9, <1>10, <1>11, <1>12, FollowingAgain

\* A line that ends in the buffer.
LEMMA LineFollowed ==
  ASSUME Followed, impl # "echo", stage \in {"size", "crlf", "last"}, LineEnd # 0,
         ChunkLine(line \o Take(buf, LineEnd - 1)), buf' = Drop(buf, LineEnd), line' = <<>>,
         UNCHANGED <<impl, script, wire, eof, cur, body, handled, responses>>
  PROVE  Following'
<1>0. ConnType
  BY DEF Followed, Answering
<1>1. LineSoFar /\ \E p \in Nat : PlacedAt(p)
  BY DEF Followed, Following, Working
<1>2. PICK p \in Nat : PlacedAt(p)
  BY <1>1
<1>3. line \in Seq(Units) /\ buf \in Seq(Units) /\ wire \in Seq(Units) /\ body \in Seq(Units)
      /\ script \in Seq(Requests) /\ Len(Sent(script)) \in Nat
  BY <1>0, WireLen DEF ConnType
<1>4. PICK l : l = LineEnd
  OBVIOUS
<1>5. l \in 1 .. Len(buf) /\ buf[l][1] = "nl" /\ \A i \in 1 .. l - 1 : buf[i][1] # "nl"
  BY <1>3, <1>4, LineEndIs
<1>6. PICK t : t = line \o Take(buf, l - 1)
  OBVIOUS
<1>7. Streams(Sent(script), p, line, buf, wire)
  BY <1>2 DEF PlacedAt
<1>8. LineAt(Sent(script), p, line, buf, wire, l, t)
  BY <1>3, <1>5, <1>6, <1>7, CutLine
<1>9. ChunkLine(t)
  BY <1>4, <1>6
<1>10. Line(script, p, t)
  <2>1. /\ Window(Sent(script), t, p) /\ Len(t) = Len(line) + (l - 1) /\ Len(t) \in Nat
        /\ Sent(script)[p + Len(t) + 1] = buf[l]
        /\ \A j \in 1 .. Len(line) : t[j] = line[j]
        /\ \A j \in 1 .. l - 1 : t[Len(line) + j] = buf[j]
    BY <1>8 DEF LineAt
  <2>2. Kind(script, p + Len(t) + 1) = "nl"
    BY <1>5, <2>1 DEF Kind
  <2>3. PICK k \in Nat : k = Len(line)
    BY <1>3
  <2>4. PICK m \in Nat : m = l - 1
    BY <1>5
  <2>5. /\ Len(t) = k + m /\ (\A j \in 1 .. k : t[j][1] # "nl")
        /\ \A j \in 1 .. m : t[k + j][1] # "nl"
    BY <1>1, <1>5, <2>1, <2>3, <2>4 DEF LineSoFar
  <2>6. ASSUME NEW j \in 1 .. k + m PROVE t[j][1] # "nl"
    <3>1. CASE j <= k
      BY <2>5, <3>1
    <3>2. CASE j > k
      <4>1. j - k \in 1 .. m /\ k + (j - k) = j
        BY <3>2
      <4> QED BY <2>5, <4>1
    <3> QED BY <3>1, <3>2
  <2> QED BY <2>1, <2>2, <2>5, <2>6 DEF Line
<1>11. Stand(stage, script, Len(handled), cur, p, body, need)
  BY <1>2 DEF PlacedAt
<1>12. cur = Len(handled) + 1
  BY <1>11 DEF Stand
<1>13. PICK e : e = p + Len(t) + 1
  OBVIOUS
<1>e. e \in Nat
  BY <1>10, <1>13 DEF Line
<1>14. CASE stage = "size" /\ (Len(t) # 1 \/ t[1][1] # "size")
  <2>1. stage' = "bad_request"
    BY <1>9, <1>14 DEF ChunkLine
  <2> QED BY <2>1 DEF Following, Working
<1>15. ASSUME Stand(stage', script, Len(handled), cur, e, body, need') PROVE Following'
  <2>1. Stand(stage', script', Len(handled'), cur', e, body', need')
    BY <1>15
  <2>2. /\ Streams(Sent(script), e, <<>>, Drop(buf, l), wire)
        /\ Reached(e, <<>>, Drop(buf, l)) = Reached(p, line, buf)
    BY <1>8, <1>13 DEF LineAt
  <2>3. Streams(Sent(script'), e, line', buf', wire')
    BY <1>4, <2>2
  <2>4. Kept(impl', script', Len(responses'), Reached(e, line', buf'), eof', wire')
    BY <1>2, <1>4, <2>2 DEF PlacedAt
  <2>5. line' = <<>> /\ \A j \in 1 .. Len(line') : line'[j][1] # "nl"
    OBVIOUS
  <2> QED BY <1>e, <2>1, <2>3, <2>4, <2>5, FollowingAgain
<1>16. CASE stage = "size" /\ Len(t) = 1 /\ t[1][1] = "size"
  <2>1. need' = t[1][3] /\ stage' = IF t[1][3] = 0 THEN "last" ELSE "chunk"
    BY <1>9, <1>16 DEF ChunkLine
  <2>2. AtSize(script, cur, p, body) /\ Window(Sent(script), t, p)
    BY <1>10, <1>11, <1>16 DEF Stand, Line
  <2>3. /\ t[1][3] = 0 => AtLast(script, cur, p + 2, body)
        /\ t[1][3] # 0 => AtChunk(script, cur, p + 2, body, t[1][3])
    BY <1>3, <1>16, <2>2, SizeLine
  <2>4. e = p + 2
    BY <1>13, <1>16
  <2>5. Stand(stage', script, Len(handled), cur, e, body, need')
    BY <1>12, <2>1, <2>3, <2>4 DEF Stand
  <2> QED BY <1>15, <2>5
<1>17. CASE stage = "crlf"
  <2>1. stage' = "size"
    BY <1>9, <1>17 DEF ChunkLine
  <2>2. AtChunk(script, cur, p, body, 0)
    BY <1>11, <1>17 DEF Stand
  <2>3. AtSize(script, cur, e, body)
    BY <1>3, <1>10, <1>13, <2>2, CrlfLine
  <2>4. Stand(stage', script, Len(handled), cur, e, body, need')
    BY <1>12, <2>1, <2>3 DEF Stand
  <2> QED BY <1>15, <2>4
<1>18. CASE stage = "last"
  <2>1. stage' = "handle"
    BY <1>9, <1>18 DEF ChunkLine
  <2>2. AtLast(script, cur, p, body)
    BY <1>11, <1>18 DEF Stand
  <2>3. Whole(script, cur, e, body)
    BY <1>3, <1>10, <1>13, <2>2, LastLine
  <2>4. Stand(stage', script, Len(handled), cur, e, body, need')
    BY <1>12, <2>1, <2>3 DEF Stand
  <2> QED BY <1>15, <2>4
<1> QED BY <1>14, <1>16, <1>17, <1>18

\* The request goes to the handler: it is the next one, with its body.
LEMMA HandleFollowed ==
  ASSUME Followed, impl # "echo", stage = "handle", stage' = "write",
         handled' = Append(handled, [request |-> cur, body |-> body]),
         UNCHANGED <<clientVars, buf, cap, cur, body, line, need, error, responses>>
  PROVE  Basis' /\ Following'
<1>0. ConnType /\ Basis
  BY DEF Followed, Answering
<1>1. line = <<>> /\ \E p \in Nat : PlacedAt(p)
  BY DEF Followed, Following, Working, LineSoFar
<1>2. PICK p \in Nat : PlacedAt(p)
  BY <1>1
<1>u. UNCHANGED <<impl, client, script, wire, eof, buf, cur, body, line, need, responses>>
  BY DEF clientVars
<1>3. Whole(script, cur, p, body) /\ cur = Len(handled) + 1
  BY <1>2 DEF PlacedAt, Stand
<1>4. cur \in 1 .. Len(script) /\ body = DeclaredBody(script[cur], cur) /\ Done(script, p, cur)
  BY <1>3 DEF Whole, Usable
<1>5. /\ handled \in Seq([request : Nat, body : Seq(Units)]) /\ cur \in Nat /\ body \in Seq(Units)
      /\ Len(script) \in Nat
  BY <1>0 DEF ConnType
<1> DEFINE x == [request |-> cur, body |-> body]
<1>6. x \in [request : Nat, body : Seq(Units)] /\ x.request = cur /\ x.body = body
  BY <1>5
<1>7. handled' = Append(handled, x)
  OBVIOUS
<1> HIDE DEF x
<1>8. /\ Len(handled') = Len(handled) + 1 /\ Len(handled) \in Nat
      /\ \A k \in 1 .. Len(handled) : handled'[k] = handled[k]
      /\ handled'[Len(handled) + 1] = x
  BY <1>5, <1>6, <1>7, OneMore
<1>9. Len(handled') = cur /\ handled'[cur] = x /\ Len(handled') <= Len(script)
  BY <1>3, <1>4, <1>5, <1>8
<1>10. ASSUME NEW k \in 1 .. Len(handled')
       PROVE  handled'[k].request = k /\ handled'[k].body = DeclaredBody(script[k], k)
  <2>1. CASE k = cur
    BY <1>4, <1>6, <1>9, <2>1
  <2>2. CASE k # cur
    <3>1. k \in 1 .. Len(handled)
      BY <1>3, <1>8, <1>9, <2>2
    <3>2. handled[k].request = k /\ handled[k].body = DeclaredBody(script[k], k)
      BY <1>0, <3>1 DEF Basis, HandledAsSent
    <3> QED BY <1>8, <3>1, <3>2
  <2> QED BY <2>1, <2>2
<1>11. Basis'
  BY <1>0, <1>u, <1>9, <1>10 DEF Basis, HandledAsSent
<1>12. Stand(stage', script', Len(handled'), cur', p, body', need')
  BY <1>u, <1>4, <1>9 DEF Stand
<1>13. /\ Streams(Sent(script'), p, line', buf', wire')
       /\ Kept(impl', script', Len(responses'), Reached(p, line', buf'), eof', wire')
  BY <1>u, <1>2 DEF PlacedAt
<1>14. line' = <<>> /\ \A j \in 1 .. Len(line') : line'[j][1] # "nl"
  BY <1>u, <1>1
<1>15. Following'
  BY <1>12, <1>13, <1>14, FollowingAgain
<1> QED BY <1>11, <1>15

\* With a response the client may send one more request.
LEMMA BoundGrows ==
  ASSUME NEW s \in Seq(Requests), NEW r \in Nat
  PROVE  Bound(s, r) <= Bound(s, r + 1) /\ Bound(s, r) \in Nat /\ Bound(s, r + 1) \in Nat
<1>1. PICK l \in 0 .. Len(s) : l = Least(Len(s), r + 1) /\ l <= r + 1
  <2>1. Len(s) \in Nat
    OBVIOUS
  <2> QED BY <2>1 DEF Least
<1>2. Bound(s, r) = End(s, l)
  BY <1>1 DEF Bound
<1>3. PICK q \in Nat : q = r + 1
  OBVIOUS
<1>4. l <= q + 1
  BY <1>1, <1>3
<1>5. End(s, l) <= Bound(s, q) /\ Bound(s, q) \in Nat /\ Bound(s, r) \in Nat
  BY <1>4, BoundType
<1> QED BY <1>2, <1>3, <1>5

\* The response is written and the next request is read from where this one
\* ended; a client that kimojio serves has not sent more than this one.
LEMMA WriteFollowed ==
  ASSUME Followed, impl # "echo", NEW left, left = buf \/ (impl = "kimojio" /\ left = <<>>),
         stage = "write", stage' = "headers", buf' = left,
         responses' = Append(responses, Response),
         UNCHANGED <<clientVars, cap, cur, body, line, need, handled>>
  PROVE  Following'
<1>0. ConnType /\ Basis /\ Turns
  BY DEF Followed, Answering
<1>1. line = <<>> /\ \E p \in Nat : PlacedAt(p)
  BY DEF Followed, Following, Working, LineSoFar
<1>2. PICK p \in Nat : PlacedAt(p)
  BY <1>1
<1>u. UNCHANGED <<impl, script, wire, eof, cur, body, line, need, handled>>
  BY DEF clientVars
<1>3. Done(script, p, cur) /\ cur = Len(handled)
  BY <1>2 DEF PlacedAt, Stand
<1>4. /\ script \in Seq(Requests) /\ buf \in Seq(Units) /\ wire \in Seq(Units) /\ Len(script) \in Nat
      /\ Len(Sent(script)) \in Nat
  BY <1>0, WireLen DEF ConnType
<1>5. PICK r \in Nat : r = Len(responses)
  BY <1>0 DEF ConnType
<1>6. Len(responses') = r + 1
  <2>1. responses \in Seq([status : {200, 400}, body : Seq(Units), close : BOOLEAN])
    BY <1>0 DEF ConnType
  <2>2. PICK x : x = Response
    OBVIOUS
  <2>3. responses' = Append(responses, x)
    BY <2>2
  <2> QED BY <1>5, <2>1, <2>3
<1>7. Len(handled) = r + 1 /\ Len(handled) <= Len(script)
  BY <1>0, <1>5 DEF Turns, Basis
<1>8. Streams(Sent(script), p, <<>>, buf, wire)
  BY <1>1, <1>2 DEF PlacedAt
<1>9. Bound(script, r) <= Bound(script, r + 1) /\ Bound(script, r) \in Nat /\ Bound(script, r + 1) \in Nat
  BY <1>4, BoundGrows
<1>10. Bound(script, r) = End(script, cur)
  <2>1. Least(Len(script), r + 1) = cur
    BY <1>3, <1>4, <1>7 DEF Least
  <2> QED BY <2>1 DEF Bound
<1>11. PICK f \in Nat : f = Reached(p, <<>>, buf)
  <2>1. Len(buf) \in Nat /\ Len(<<>>) = 0
    BY <1>4
  <2> QED BY <2>1 DEF Reached
<1>12. impl = "kimojio" => f <= Bound(script, r)
  BY <1>1, <1>2, <1>5, <1>11 DEF PlacedAt, Kept, InTurn
<1>a. AllThere(script, f, eof, wire)
  BY <1>1, <1>2, <1>11 DEF PlacedAt, Kept
<1>13. ASSUME NEW q \in Nat, Done(script, q, cur), Streams(Sent(script), q, <<>>, left, wire),
              Reached(q, <<>>, left) = f
       PROVE  Following'
  <2>1. Stand(stage', script', Len(handled'), cur', q, body', need')
    BY <1>u, <1>3, <1>13 DEF Stand
  <2>2. Streams(Sent(script'), q, line', buf', wire')
    BY <1>u, <1>1, <1>13
  <2>3. Reached(q, line', buf') = f /\ script' = script /\ impl' = impl /\ Len(responses') = r + 1
    BY <1>u, <1>1, <1>6, <1>13
  <2>4. impl = "kimojio" => f <= Bound(script, r + 1)
    BY <1>9, <1>12
  <2>5. Kept(impl', script', Len(responses'), Reached(q, line', buf'), eof', wire')
    BY <1>u, <1>a, <2>3, <2>4 DEF Kept, InTurn
  <2>6. line' = <<>> /\ \A j \in 1 .. Len(line') : line'[j][1] # "nl"
    BY <1>u, <1>1
  <2> QED BY <2>1, <2>2, <2>5, <2>6, FollowingAgain
<1>14. CASE left = buf
  BY <1>3, <1>8, <1>11, <1>13, <1>14
<1>15. CASE impl = "kimojio" /\ left = <<>>
  <2>1. /\ Streams(Sent(script), p + Len(buf), <<>>, <<>>, wire) /\ p + Len(buf) \in Nat
        /\ Reached(p + Len(buf), <<>>, <<>>) = Reached(p, <<>>, buf)
        /\ p + Len(buf) = Reached(p, <<>>, buf)
    <3>1. BufferReset(Sent(script), p, buf, wire)
      BY <1>4, <1>8, ResetBuffer
    <3> QED BY <3>1 DEF BufferReset
  <2>2. f = p + Len(buf) /\ p <= f
    <3>1. Len(buf) \in Nat
      BY <1>4
    <3> QED BY <1>11, <2>1, <3>1
  <2>3. f <= End(script, cur) /\ End(script, cur) \in Nat
    BY <1>9, <1>10, <1>12, <1>15
  <2>4. Done(script, f, cur)
    BY <1>3, <2>2, <2>3, DoneLater
  <2>5. Streams(Sent(script), f, <<>>, left, wire) /\ Reached(f, <<>>, left) = f
    BY <1>11, <1>15, <2>1, <2>2
  <2> QED BY <1>13, <2>4, <2>5
<1> QED BY <1>14, <1>15

\* The client ends the stream.
LEMMA ClientFollowed ==
  ASSUME Followed, impl # "echo", ClientClose \/ ClientReset
  PROVE  Following'
<1>0. ConnType
  BY DEF Followed, Answering
<1>1. UNCHANGED <<impl, script, stage, cur, body, line, buf, need, handled, responses>>
  BY DEF ClientClose, ClientReset, parserVars, resultVars
<1>2. SUFFICES ASSUME stage \in Working PROVE Following'
  BY <1>1 DEF Following
<1>3. LineSoFar /\ \E p \in Nat : PlacedAt(p)
  BY <1>2 DEF Followed, Following
<1>4. PICK p \in Nat : PlacedAt(p)
  BY <1>3
<1>5. line \in Seq(Units) /\ buf \in Seq(Units) /\ wire \in Seq(Units)
  BY <1>0 DEF ConnType
<1>6. Streams(Sent(script), p, line, buf, wire)
  BY <1>4 DEF PlacedAt
<1>7. Streams(Sent(script), p, line, buf, wire')
  <2>1. CASE wire' = wire
    BY <1>6, <2>1
  <2>2. CASE \E n \in 0 .. Len(wire) : wire' = Take(wire, n)
    <3>1. PICK n \in 0 .. Len(wire) : wire' = Take(wire, n)
      BY <2>2
    <3>2. Streams(Sent(script), p, line, buf, Take(wire, n))
      BY <1>0, <1>5, <1>6, WireLen, ClientCut
    <3> QED BY <3>1, <3>2
  <2> QED BY <2>1, <2>2 DEF ClientClose, ClientReset
<1>8. Stand(stage', script', Len(handled'), cur', p, body', need')
  BY <1>1, <1>4 DEF PlacedAt
<1>a. Kept(impl', script', Len(responses'), Reached(p, line', buf'), eof', wire')
  <2>1. eof' \/ (eof' = eof /\ wire' = wire)
    BY DEF ClientClose, ClientReset
  <2> QED BY <1>1, <1>4, <2>1 DEF PlacedAt, Kept, AllThere
<1>9. Streams(Sent(script'), p, line', buf', wire')
  BY <1>1, <1>7
<1>10. (stage' \notin {"size", "crlf", "last"} => line' = <<>>) /\ \A j \in 1 .. Len(line') : line'[j][1] # "nl"
  BY <1>1, <1>3 DEF LineSoFar
<1> QED BY <1>8, <1>9, <1>10, <1>a, FollowingAgain

\* A buffer that is full at its limit.
LEMMA TooLargeRefused ==
  ASSUME Followed, impl # "echo", HeadersTooLarge, Fail("too_large")
  PROVE  Refusals'
<1>0. ConnType
  BY DEF Followed, Answering
<1>1. stage = "headers" /\ httparse(buf).status = "partial" /\ Len(buf) = cap /\ cap >= MaxBuf
  BY DEF HeadersTooLarge
<1>2. line = <<>> /\ \E p \in Nat : PlacedAt(p)
  BY <1>1 DEF Followed, Following, Working, LineSoFar
<1>3. PICK p \in Nat : PlacedAt(p)
  BY <1>2
<1>4. PICK s \in Seq(Requests) : s = script
  BY <1>0 DEF ConnType
<1>5. PICK n : n = Len(handled)
  OBVIOUS
<1>6. PICK b \in Seq(Units) : b = buf
  BY <1>0 DEF ConnType
<1>8. Done(s, p, n) /\ Streams(Sent(s), p, <<>>, b, wire)
  BY <1>1, <1>2, <1>3, <1>4, <1>5, <1>6 DEF PlacedAt, Stand
<1>9. Window(Sent(s), b, p)
  <2>1. p + Len(<<>>) = p
    BY <1>3
  <2> QED BY <1>8, <2>1 DEF Streams
<1>10. Len(b) \in Nat /\ MaxBuf \in Nat /\ Len(b) >= MaxBuf /\ Len(b) > 2
  BY <1>1, <1>6, BufAssumption
<1>11. PICK k : k = n + 1
  OBVIOUS
<1>12. k \in 1 .. Len(s) /\ Len(b) < s[k].head + Blanks(s, n)
  BY <1>1, <1>6, <1>8, <1>9, <1>10, <1>11, Oversize
<1>13. n \in Nat /\ k <= Len(s) /\ n \in 0 .. Len(s)
  BY <1>0, <1>5, <1>8, <1>12 DEF ConnType, Done
<1>14. s[k].head \in Nat
  <2>1. s[k] \in Requests
    BY <1>12
  <2> QED BY <2>1 DEF Requests
<1>15. Blanks(s, n) = IF k = 1 THEN 0 ELSE Least(s[k - 1].trailers, 2)
  BY <1>11, <1>13 DEF Blanks
<1>16. s[k].head + Blanks(s, n) > MaxBuf
  <2>1. PICK x \in Nat : x = Blanks(s, n)
    BY <1>13, BlanksType
  <2> QED BY <1>10, <1>12, <1>14, <2>1
<1>17. UNCHANGED <<impl, script, handled>> /\ stage' = "bad_request"
  BY DEF Fail, clientVars
<1>18. OnlyOversizeRefused'
  BY <1>4, <1>5, <1>11, <1>13, <1>15, <1>16, <1>17 DEF OnlyOversizeRefused
<1> QED BY <1>17, <1>18 DEF Refusals

\* At the start the parser stands at the beginning of the stream.
LEMMA FollowedInit == ASSUME Init PROVE Followed
<1>0. PICK i \in Instances, how \in {"pipelines", "sequential"} :
        how \in i.clients /\ \E s \in i.scripts : InitConnection(ImplOf(i.server), how, s)
  BY DEF Init
<1>1. PICK s \in i.scripts : InitConnection(ImplOf(i.server), how, s)
  BY <1>0
<1>2. /\ s \in Seq(Requests) /\ (\A k \in 1 .. Len(s) : Honest(s[k], k))
      /\ i.server = "kimojio" => i.clients = {"sequential"}
  BY InstancesAssumption
<1>3. Answering
  BY ConnTypeInit DEF Answering
<1>4. /\ script = s /\ buf = <<>> /\ line = <<>> /\ handled = <<>> /\ responses = <<>> /\ error = "none"
      /\ impl = ImplOf(i.server) /\ client = how /\ wire = Sent(s)
      /\ stage = IF impl = "echo" THEN "recv" ELSE "headers"
  BY <1>1 DEF InitConnection, Sent, Encoded
<1>5. impl = "kimojio" => client = "sequential"
  <2>1. impl = "kimojio" => i.server = "kimojio"
    BY <1>4 DEF ImplOf
  <2> QED BY <1>0, <1>2, <1>4, <2>1
<1>6. Len(handled) = 0 /\ Len(responses) = 0 /\ Len(<<>>) = 0 /\ Len(s) \in Nat
  BY <1>2, <1>4
<1>7. Basis
  BY <1>2, <1>4, <1>5, <1>6 DEF Basis, HandledAsSent
<1>8. Refusals
  BY <1>4 DEF Refusals, OnlyOversizeRefused
<1>9. ASSUME impl # "echo" PROVE LineSoFar /\ PlacedAt(0)
  <2>1. stage = "headers"
    BY <1>4, <1>9
  <2>2. End(s, 0) = 0 /\ Len(Sent(s)) \in Nat /\ 0 \in 0 .. Len(s)
    BY <1>2, <1>6, SentShape
  <2>3. Done(s, 0, 0)
    BY <1>2, <2>2, DoneEnd
  <2>4. Stand(stage, script, Len(handled), cur, 0, body, need)
    BY <1>4, <1>6, <2>1, <2>3 DEF Stand
  <2>5. Streams(Sent(s), 0, <<>>, <<>>, wire)
    <3>1. PICK w : w = Sent(s)
      OBVIOUS
    <3>2. Len(w) \in Nat /\ \A j \in 1 .. Len(w) : w[0 + j] = w[j]
      BY <2>2, <3>1
    <3>3. Window(w, w, 0) /\ Window(w, <<>>, 0)
      BY <1>6, <3>2 DEF Window
    <3>4. 0 + Len(<<>>) = 0 /\ 0 + Len(<<>>) + Len(<<>>) = 0
      OBVIOUS
    <3>5. Streams(w, 0, <<>>, <<>>, w)
      BY <3>3, <3>4 DEF Streams
    <3> QED BY <1>4, <3>1, <3>5
  <2>6. Kept(impl, script, Len(responses), Reached(0, line, buf), eof, wire)
    <3>1. Reached(0, line, buf) = 0
      BY <1>4 DEF Reached
    <3>2. PICK r \in Nat : r = Len(responses)
      BY <1>6
    <3>3. Bound(s, r) \in Nat
      BY <1>2, BoundType
    <3>4. 0 + Len(wire) = Len(Sent(s))
      BY <1>4, <2>2
    <3> QED BY <1>4, <3>1, <3>2, <3>3, <3>4 DEF Kept, InTurn, AllThere
  <2>7. LineSoFar
    BY <1>4 DEF LineSoFar
  <2> QED BY <1>4, <2>4, <2>5, <2>6, <2>7 DEF PlacedAt
<1>10. Following
  BY <1>9 DEF Following
<1> QED BY <1>3, <1>7, <1>8, <1>10 DEF Followed

\* A step after which the parser does not go on.
LEMMA Stops ==
  ASSUME Followed, Answering', Same, stage \notin {"bad_request", "closed"},
         stage' \in {"bad_request", "closed"}, error' = error \/ error' # "too_large"
  PROVE  Followed'
<1>1. Basis'
  BY SameBasis DEF Followed
<1>2. Refusals'
  BY SameRefusals DEF Followed
<1>3. Following'
  BY DEF Following, Working
<1> QED BY <1>1, <1>2, <1>3 DEF Followed

\* A step of the parser.
LEMMA Goes ==
  ASSUME Followed, Answering', Same, stage \in Working, error' = error \/ error' # "too_large",
         Following'
  PROVE  Followed'
<1>1. Basis'
  BY SameBasis DEF Followed
<1>2. Refusals'
  BY SameRefusals DEF Followed, Working
<1> QED BY <1>1, <1>2 DEF Followed

\* The steps that read a head (parse_headers) keep the invariant.
LEMMA HeadStep ==
  ASSUME Followed, Answering', impl # "echo", ParseHeaders \/ ParseRefused \/ ReadMore \/ ReadFails
  PROVE  Followed'
<1>t. Len(buf) \in Nat /\ cap \in Nat
  BY DEF Followed, Answering, ConnType
<1>1. CASE ParseHeaders
  <2>1. Same /\ stage \in Working /\ error' = error
    BY <1>1 DEF ParseHeaders, Same, Working, clientVars, resultVars
  <2> QED BY <1>1, <2>1, ParseFollowed, Goes
<1>2. CASE ParseRefused
  <2>1. Same /\ stage = "headers" /\ stage' = "bad_request" /\ error' = "parse"
    BY <1>2 DEF ParseRefused, Fail, Same, clientVars
  <2> QED BY <2>1, Stops
<1>3. CASE ReadMore
  <2>0. stage = "headers"
    BY <1>3 DEF ReadMore
  <2>1. CASE HeadersTooLarge /\ Fail("too_large")
    <3>1. Same /\ stage' = "bad_request"
      BY <2>1 DEF Fail, Same, clientVars
    <3>2. Refusals'
      BY <2>1, TooLargeRefused
    <3>3. Basis'
      BY <3>1, SameBasis DEF Followed
    <3>4. Following'
      BY <3>1 DEF Following, Working
    <3> QED BY <3>2, <3>3, <3>4 DEF Followed
  <2>2. CASE Closed
    <3>1. Same /\ stage' = "closed" /\ error' = error
      BY <2>2 DEF Closed, Same, clientVars, resultVars
    <3> QED BY <2>0, <3>1, Stops
  <2>3. CASE /\ \E n \in ReadCounts(Grown - Len(buf)) :
                   buf' = buf \o Take(wire, n) /\ wire' = Drop(wire, n)
             /\ UNCHANGED <<impl, client, script, eof, broken, stage, cur, body, line, need, resultVars>>
    <3>1. Same /\ stage \in Working /\ error' = error
          /\ UNCHANGED <<impl, script, eof, stage, cur, body, line, need, handled, responses>>
      BY <2>0, <2>3 DEF Same, Working, resultVars
    <3>0. Grown - Len(buf) \in Int
      <4>1. Grown \in Nat
        BY <1>t DEF Grown
      <4> QED BY <1>t, <4>1
    <3>2. PICK space \in Int : space = Grown - Len(buf)
      BY <3>0
    <3>3. PICK n \in ReadCounts(space) : buf' = buf \o Take(wire, n) /\ wire' = Drop(wire, n)
      BY <2>3, <3>2
    <3>4. Following'
      BY <2>0, <3>1, <3>3, MoreFollowed
    <3> QED BY <3>1, <3>4, Goes
  <2> QED BY <1>3, <2>1, <2>2, <2>3 DEF ReadMore
<1>4. CASE ReadFails
  <2>1. Same /\ stage \notin {"bad_request", "closed"} /\ stage' = "bad_request" /\ error' = "io"
    BY <1>4 DEF ReadFails, Reading, Fail, Same, clientVars
  <2> QED BY <2>1, Stops
<1> QED BY <1>1, <1>2, <1>3, <1>4

\* The steps that read a body keep the invariant.
LEMMA BodyStep ==
  ASSUME Followed, Answering', impl # "echo", NEW limit \in Nat,
         FromBuffer \/ ReadExact(limit) \/ ExactDone \/ ReadLine
  PROVE  Followed'
<1>t. need \in Nat /\ cap \in Nat
  BY DEF Followed, Answering, ConnType
<1>0. ASSUME Closed, stage \in Working PROVE Followed'
  <2>1. Same /\ stage' = "closed" /\ error' = error /\ stage \notin {"bad_request", "closed"}
    BY <1>0 DEF Closed, Same, clientVars, resultVars, Working
  <2> QED BY <2>1, Stops
<1>1. CASE FromBuffer
  <2>1. Same /\ stage \in Working /\ error' = error
    BY <1>1 DEF FromBuffer, Same, Working, clientVars, resultVars
  <2> QED BY <1>1, <2>1, FromBufferFollowed, Goes
<1>2. CASE ReadExact(limit)
  <2>0. stage \in {"fixed", "chunk"} /\ buf = <<>> /\ stage \in Working
    BY <1>2 DEF ReadExact, Working
  <2>1. CASE Closed
    BY <1>0, <2>0, <2>1
  <2>2. CASE /\ \E n \in ReadCounts(Least(need, limit)) :
                   body' = body \o Take(wire, n) /\ wire' = Drop(wire, n) /\ need' = need - n
             /\ UNCHANGED <<impl, client, script, eof, broken, buf, cap, stage, cur, line, resultVars>>
    <3>1. Same /\ error' = error /\ UNCHANGED <<impl, script, eof, buf, stage, cur, line, handled, responses>>
      BY <2>2 DEF Same, resultVars
    <3>2. PICK space \in Int : space = Least(need, limit) /\ space <= need
      BY <1>t DEF Least
    <3>3. PICK n \in ReadCounts(space) :
             body' = body \o Take(wire, n) /\ wire' = Drop(wire, n) /\ need' = need - n
      BY <2>2, <3>2
    <3>4. Following'
      BY <2>0, <3>1, <3>2, <3>3, ExactFollowed
    <3> QED BY <2>0, <3>1, <3>4, Goes
  <2> QED BY <1>2, <2>1, <2>2 DEF ReadExact
<1>3. CASE ExactDone
  <2>1. Same /\ stage \in Working /\ error' = error
    BY <1>3 DEF ExactDone, Same, Working, clientVars, resultVars
  <2> QED BY <1>3, <2>1, ExactDoneFollowed, Goes
<1>4. CASE ReadLine
  <2>0. stage \in {"size", "crlf", "last"} /\ stage \in Working
    BY <1>4 DEF ReadLine, Working
  <2>1. CASE Closed
    BY <1>0, <2>0, <2>1
  <2>2. CASE /\ LineEnd = 0
             /\ \E n \in ReadCounts(cap) :
                   line' = line \o buf /\ buf' = Take(wire, n) /\ wire' = Drop(wire, n)
             /\ UNCHANGED <<impl, client, script, eof, broken, cap, stage, cur, body, need, resultVars>>
    <3>1. Same /\ error' = error /\ UNCHANGED <<impl, script, eof, stage, cur, body, need, handled, responses>>
      BY <2>2 DEF Same, resultVars
    <3>2. PICK space \in Int : space = cap
      BY <1>t
    <3>3. PICK n \in ReadCounts(space) : line' = line \o buf /\ buf' = Take(wire, n) /\ wire' = Drop(wire, n)
      BY <2>2, <3>2
    <3>4. Following'
      BY <2>0, <2>2, <3>1, <3>3, AsideFollowed
    <3> QED BY <2>0, <3>1, <3>4, Goes
  <2>3. CASE /\ LineEnd # 0 /\ ChunkLine(line \o Take(buf, LineEnd - 1))
             /\ buf' = Drop(buf, LineEnd) /\ line' = <<>>
             /\ UNCHANGED <<clientVars, cap, cur, body, handled, responses>>
    <3>1. Same /\ UNCHANGED <<impl, script, wire, eof, cur, body, handled, responses>>
      BY <2>3 DEF Same, clientVars
    <3>2. error' = error \/ error' = "content_length"
      <4>1. PICK text : ChunkLine(text)
        BY <2>3
      <4> QED BY <2>0, <4>1 DEF ChunkLine
    <3>3. Following'
      BY <2>0, <2>3, <3>1, LineFollowed
    <3> QED BY <2>0, <3>1, <3>2, <3>3, Goes
  <2> QED BY <1>4, <2>1, <2>2, <2>3 DEF ReadLine
<1> QED BY <1>1, <1>2, <1>3, <1>4

\* Handling a request, answering it and refusing a bad one keep the invariant.
LEMMA AnswerStep ==
  ASSUME Followed, Answering', impl # "echo", NEW left, left = buf \/ (impl = "kimojio" /\ left = <<>>),
         Handle \/ Write(left) \/ BadRequest
  PROVE  Followed'
<1>1. CASE Handle
  <2>0. stage = "handle"
    BY <1>1 DEF Handle
  <2>1. CASE Fail("uri")
    <3>1. Same /\ stage' = "bad_request" /\ error' = "uri"
      BY <2>1 DEF Fail, Same, clientVars
    <3> QED BY <2>0, <3>1, Stops
  <2>2. CASE /\ handled' = Append(handled, [request |-> cur, body |-> body])
             /\ stage' = "write"
             /\ UNCHANGED <<clientVars, buf, cap, cur, body, line, need, error, responses>>
    <3>1. Basis' /\ Following'
      BY <2>0, <2>2, HandleFollowed
    <3>2. error # "too_large" /\ error' = error
      BY <2>0, <2>2 DEF Followed, Refusals
    <3>3. Refusals'
      BY <3>2 DEF Refusals, OnlyOversizeRefused
    <3> QED BY <3>1, <3>3 DEF Followed
  <2> QED BY <1>1, <2>1, <2>2 DEF Handle
<1>2. CASE Write(left)
  <2>0. stage = "write" /\ UNCHANGED <<impl, client, script, handled>>
    BY <1>2 DEF Write, clientVars
  <2>1. Basis'
    BY <2>0 DEF Followed, Basis, HandledAsSent
  <2>2. Refusals'
    <3>1. error # "too_large"
      BY <2>0 DEF Followed, Refusals
    <3>2. error' = error \/ error' = "io"
      BY <1>2 DEF Write
    <3> QED BY <3>1, <3>2 DEF Refusals, OnlyOversizeRefused
  <2>3. Following'
    <3>1. CASE stage' = "closed"
      BY <3>1 DEF Following, Working
    <3>2. CASE stage' # "closed"
      <4>1. /\ responses' = Append(responses, Response) /\ stage' = "headers" /\ buf' = left
            /\ UNCHANGED <<clientVars, cap, cur, body, line, need, handled>>
        BY <1>2, <3>2 DEF Write
      <4> QED BY <2>0, <4>1, WriteFollowed
    <3> QED BY <3>1, <3>2
  <2> QED BY <2>1, <2>2, <2>3 DEF Followed
<1>3. CASE BadRequest
  <2>0. stage = "bad_request" /\ stage' = "closed" /\ UNCHANGED <<impl, client, script, handled, error>>
    BY <1>3 DEF BadRequest, clientVars
  <2>1. Basis'
    BY <2>0 DEF Followed, Basis, HandledAsSent
  <2>2. Refusals'
    BY <2>0 DEF Followed, Refusals, OnlyOversizeRefused
  <2>3. Following'
    BY <2>0 DEF Following, Working
  <2> QED BY <2>1, <2>2, <2>3 DEF Followed
<1> QED BY <1>1, <1>2, <1>3

\* Every step of a connection keeps the invariant, the echo server's too.
LEMMA ConnectionFollowed == ASSUME Followed, ConnectionNext PROVE Followed'
<1>0. Answering'
  BY ConnectionStep DEF Followed
<1>t. need \in Nat /\ ReadChunk \in Nat
  BY BufAssumption DEF Followed, Answering, ConnType
<1>1. CASE HttpParser \/ KimojioHttpParser
  BY <1>0, <1>1, HeadStep DEF HttpParser, KimojioHttpParser
<1>2. CASE HttpParserBody \/ KimojioHttpParserBody
  <2>1. impl # "echo"
    BY <1>2 DEF HttpParserBody, KimojioHttpParserBody
  <2>2. \E limit \in Nat : FromBuffer \/ ReadExact(limit) \/ ExactDone \/ ReadLine
    BY <1>t, <1>2 DEF HttpParserBody, KimojioHttpParserBody
  <2> QED BY <1>0, <2>1, <2>2, BodyStep
<1>3. CASE handle_connection \/ handle_http_connection
  <2>1. impl # "echo" /\ \E left : /\ left = buf \/ (impl = "kimojio" /\ left = <<>>)
                                   /\ Handle \/ Write(left) \/ BadRequest
    BY <1>3 DEF handle_connection, handle_http_connection, reset
  <2> QED BY <1>0, <2>1, AnswerStep
<1>4. CASE EchoRecv \/ EchoSend
  <2>1. impl = "echo" /\ impl' = impl /\ client' = client /\ script' = script /\ error # "too_large"
    BY <1>4 DEF EchoRecv, EchoSend, Closed, clientVars, Followed, Refusals
  <2>2. error' = error \/ error' = "io"
    BY <1>4 DEF EchoRecv, EchoSend, Closed, resultVars
  <2>3. Basis'
    BY <2>1 DEF Followed, Basis, HandledAsSent
  <2>4. Refusals' /\ Following'
    BY <2>1, <2>2 DEF Refusals, OnlyOversizeRefused, Following
  <2> QED BY <1>0, <2>3, <2>4 DEF Followed
<1>5. CASE ClientClose \/ ClientReset
  <2>1. Same /\ stage' = stage /\ error' = error
    BY <1>5 DEF ClientClose, ClientReset, Same, parserVars, resultVars
  <2>2. Basis'
    BY <2>1, SameBasis DEF Followed
  <2>3. Refusals'
    BY <2>1 DEF Followed, Refusals, OnlyOversizeRefused, Same
  <2>4. Following'
    <3>1. CASE impl = "echo"
      BY <2>1, <3>1 DEF Following, Same
    <3>2. CASE impl # "echo"
      BY <1>5, <3>2, ClientFollowed
    <3> QED BY <3>1, <3>2
  <2> QED BY <1>0, <2>2, <2>3, <2>4 DEF Followed
<1> QED BY <1>1, <1>2, <1>3, <1>4, <1>5 DEF ConnectionNext, Server

\* Steps of the other parts of the server leave the connection alone.
LEMMA FollowedStays == ASSUME Followed, UNCHANGED connectionVars PROVE Followed'
<1>1. Answering'
  BY ConnectionStays DEF Followed
<1>2. UNCHANGED <<impl, client, script, wire, eof, buf, stage, cur, body, line, need, error, handled, responses>>
  BY DEF connectionVars, clientVars, parserVars, resultVars
<1>3. Basis' /\ Refusals'
  BY <1>2 DEF Followed, Basis, Refusals, HandledAsSent, OnlyOversizeRefused
<1>4. Following'
  <2>1. SUFFICES ASSUME impl # "echo", stage \in Working PROVE Following'
    BY <1>2 DEF Following
  <2>2. LineSoFar /\ \E p \in Nat : PlacedAt(p)
    BY <2>1 DEF Followed, Following
  <2>3. PICK p \in Nat : PlacedAt(p)
    BY <2>2
  <2>4. /\ Stand(stage', script', Len(handled'), cur', p, body', need')
        /\ Streams(Sent(script'), p, line', buf', wire')
        /\ Kept(impl', script', Len(responses'), Reached(p, line', buf'), eof', wire')
    BY <1>2, <2>3 DEF PlacedAt
  <2>5. (stage' \notin {"size", "crlf", "last"} => line' = <<>>) /\ \A j \in 1 .. Len(line') : line'[j][1] # "nl"
    BY <1>2, <2>2 DEF LineSoFar
  <2> QED BY <2>4, <2>5, FollowingAgain
<1> QED BY <1>1, <1>3, <1>4 DEF Followed

\* Every step keeps the invariant.
LEMMA FollowedStep == ASSUME Followed, [Next]_vars PROVE Followed'
<1>1. CASE Serve
  BY <1>1, ConnectionFollowed DEF Serve
<1>2. CASE Loop(LoopNext) \/ (\E k \in Clients : OtherDone(k)) \/ UNCHANGED vars
  <2>1. UNCHANGED connectionVars
    BY <1>2 DEF Loop, OtherDone, vars
  <2> QED BY <2>1, FollowedStays
<1> QED BY <1>1, <1>2 DEF Next

\* The handler is given the client's requests in the order sent, each once and
\* with exactly the body that it declares, whatever pieces the stream comes in:
\* parse_headers, read_fixed_body and read_chunked_body never take a byte of one
\* request for one of another.  For every server, script of honest requests,
\* buffer and read size.
THEOREM RequestsHandledAsSent == Spec => []HandledAsSent
<1>1. Followed => HandledAsSent
  BY DEF Followed, Basis
<1> QED BY <1>1, FollowedInit, FollowedStep, PTL DEF Spec

\* A head is refused as too large only when it is longer than the buffer may
\* grow, less the empty lines that the trailers before it left.
THEOREM RefusedAreOversize == Spec => []OnlyOversizeRefused
<1>1. Followed => OnlyOversizeRefused
  BY DEF Followed, Refusals
<1> QED BY <1>1, FollowedInit, FollowedStep, PTL DEF Spec

-----------------------------------------------------------------------------
(***************************************************************************)
(* No request starves: whatever the task of a connection waits for is on   *)
(* its way, as long as the client and the server are there.                *)
(***************************************************************************)

\* The space a read has: what is left of the buffer, grown if it was full, the
\* units of a body that are missing, or the whole buffer for more of a line.
Room ==
  CASE stage = "headers" -> Grown - Len(buf)
    [] stage \in {"fixed", "chunk"} -> need
    [] OTHER -> cap

\* A connection that is served and has requests to answer is never stuck: it is
\* not closed, and when it waits for its client, there are bytes for it and space
\* to read them to.  In all other stages it has a step of its own.
RequestsMoveOn ==
  Serving /\ impl # "echo" /\ ~eof /\ ~broken /\ Len(responses) < Len(script) =>
    /\ stage \in Working \cup {"bad_request"}
    /\ Reading /\ ~HeadersTooLarge => Arrived > 0 /\ Room > 0

\* No chunk ends after the last one.
LEMMA ChunkWithin ==
  ASSUME NEW s \in Seq(Requests), NEW k \in 1 .. Len(s), s[k].bad # "head", s[k].chunked,
         NEW c \in 0 .. Len(s[k].chunks)
  PROVE  /\ ChunkEnd(s, k, c) \in Nat /\ End(s, k) \in Nat
         /\ ChunkEnd(s, k, c) + 3 <= End(s, k)
<1> DEFINE m == Len(s[k].chunks)
           C == PieceOff(s[k], k)
           h == HeadEnd(s, k)
<1>1. s[k] \in Requests /\ h \in Nat /\ End(s, k) \in Nat
  BY Request
<1>2. m \in Nat /\ C \in [0 .. m -> Nat] /\ \A d \in 0 .. m : C[d] <= C[m]
  <2>1. ChunkFacts(s[k], k)
    BY <1>1, ChunkFactsHold, Zenon
  <2> QED BY <2>1 DEF ChunkFacts
<1>3. End(s, k) = ChunkEnd(s, k, m) + 2 * s[k].trailers + 3 /\ s[k].trailers \in Nat
  BY ChunkedBody, Zenon
<1>4. ChunkEnd(s, k, c) = h + C[c] /\ ChunkEnd(s, k, m) = h + C[m]
  BY DEF ChunkEnd
<1> HIDE DEF m, C, h
<1>5. c \in 0 .. m
  BY DEF m
<1>6. PICK x \in Nat : x = C[c]
  BY <1>2, <1>5
<1>7. PICK y \in Nat : y = C[m] /\ x <= y
  BY <1>2, <1>5, <1>6
<1>8. PICK t \in Nat : t = 2 * s[k].trailers
  BY <1>3
<1>9. PICK e \in Nat : e = End(s, k)
  BY <1>1
<1>10. e = h + y + t + 3 /\ h \in Nat
  BY <1>1, <1>3, <1>4, <1>7, <1>8, <1>9
<1>11. h + x \in Nat /\ h + x + 3 <= e
  BY <1>7, <1>10
<1> QED BY <1>4, <1>6, <1>9, <1>11

\* The parser has not got past an end of line that it has not seen.
LEMMA BeforeNl ==
  ASSUME NEW s \in Seq(Requests), NEW U, NEW p, NEW x \in Seq(U), NEW y \in Seq(U), NEW z,
         Streams(Sent(s), p, x, y, z), NEW q \in Nat, p < q, Kind(s, q) = "nl",
         \A j \in 1 .. Len(x) : x[j][1] # "nl", \A j \in 1 .. Len(y) : y[j][1] # "nl"
  PROVE  Reached(p, x, y) < q
<1>1. p \in Nat
  BY DEF Streams
<1>2. PICK a \in Nat : a = Len(x)
  OBVIOUS
<1>3. PICK b \in Nat : b = Len(y)
  OBVIOUS
<1>4. /\ \A j \in 1 .. a : x[j][1] = Kind(s, p + j)
      /\ \A j \in 1 .. b : y[j][1] = Kind(s, (p + a) + j)
  BY <1>2, <1>3 DEF Streams, Window, Kind
<1>5. SUFFICES ASSUME q <= p + a + b PROVE FALSE
  BY <1>1, <1>2, <1>3 DEF Reached
<1>6. CASE q <= p + a
  <2>1. PICK j \in 1 .. a : p + j = q
    <3>1. q - p \in 1 .. a /\ p + (q - p) = q
      BY <1>1, <1>6
    <3> QED BY <3>1
  <2> QED BY <1>2, <1>4, <2>1
<1>7. CASE q > p + a
  <2>1. PICK j \in 1 .. b : (p + a) + j = q
    <3>1. q - (p + a) \in 1 .. b /\ (p + a) + (q - (p + a)) = q
      BY <1>1, <1>5, <1>7
    <3> QED BY <3>1
  <2> QED BY <1>3, <1>4, <2>1
<1> QED BY <1>1, <1>6, <1>7

\* As long as no head is found, the next request is not read to its end.
LEMMA PartialShort ==
  ASSUME NEW s \in Seq(Requests), NEW U, NEW b \in Seq(U), NEW p, NEW k, Done(s, p, k), k < Len(s),
         Window(Sent(s), b, p), httparse(b).status = "partial"
  PROVE  p + Len(b) < End(s, k + 1)
<1>1. PICK z : z = Blank(b)
  OBVIOUS
<1>2. PICK l : l = EndOfHead(b)
  OBVIOUS
<1>3. z = 0 \/ (z # 0 /\ StartsHead(b[z]) /\ l = 0)
  BY <1>1, <1>2 DEF httparse
<1>4. /\ z \in 0 .. Len(b) /\ Len(b) \in Nat
      /\ z = 0 => \A i \in 1 .. Len(b) : b[i][1] = "nl"
      /\ z # 0 => \A i \in 1 .. z - 1 : b[i][1] = "nl"
  BY <1>1, BlankIs
<1>5. l = 0 => \A i \in 1 .. Len(b) : b[i][1] # "end"
  BY <1>2, HeadEndIs
<1>6. PICK n \in Nat : n = Len(b)
  BY <1>4
<1>7. p + n <= Len(Sent(s)) /\ \A j \in 1 .. n : b[j][1] = Kind(s, p + j)
  BY <1>6 DEF Window, Kind
<1>8. k \in 0 .. Len(s) /\ p \in Nat /\ p <= End(s, k)
  BY DEF Done
<1>9. PICK c \in 1 .. Len(s) : c = k + 1 /\ c - 1 = k
  <2>1. k + 1 \in 1 .. Len(s) /\ (k + 1) - 1 = k
    BY <1>8
  <2> QED BY <2>1
<1>10. PICK e \in Nat : e = End(s, k)
  BY <1>8, SentShape
<1>11. /\ End(s, c) \in Nat /\ e < End(s, c) /\ End(s, c) <= Len(Sent(s))
       /\ s[c].bad # "head" => HeadEnd(s, c) <= End(s, c) /\ HeadEnd(s, c) \in Nat
  BY <1>9, <1>10, Request
<1>12. e < Len(Sent(s)) /\ Len(Sent(s)) \in Nat
  <2>1. Len(Sent(s)) \in Nat
    BY SentShape
  <2> QED BY <1>11, <2>1
<1>13. /\ Kind(s, e + 1) # "nl"
       /\ s[c].bad = "head" => Kind(s, e + 1) = "bad"
       /\ s[c].bad # "head" => Kind(s, HeadEnd(s, c)) = "end" /\ e < HeadEnd(s, c)
  <2>1. /\ Kind(s, e + 1) # "nl"
        /\ s[c].bad = "head" => Kind(s, e + 1) = "bad"
        /\ s[c].bad # "head" => /\ s[c].head \in Nat \ {0} /\ HeadEnd(s, c) = e + s[c].head
                                /\ Kind(s, HeadEnd(s, c)) = "end"
    BY <1>8, <1>9, <1>10, <1>12, FirstUnit, Zenon
  <2> QED BY <2>1
<1>14. ASSUME NEW q \in Nat, p < q, q <= p + n PROVE \E i \in 1 .. n : p + i = q /\ b[i][1] = Kind(s, q)
  <2>1. q - p \in 1 .. n /\ p + (q - p) = q
    BY <1>8, <1>14
  <2> QED BY <1>7, <2>1
<1>15. CASE z = 0
  <2>1. ~(e + 1 <= p + n)
    <3>1. SUFFICES ASSUME e + 1 <= p + n PROVE FALSE
      OBVIOUS
    <3>2. p < e + 1 /\ e + 1 \in Nat
      BY <1>8, <1>10
    <3>3. PICK i \in 1 .. n : b[i][1] = Kind(s, e + 1)
      BY <1>14, <3>1, <3>2
    <3> QED BY <1>4, <1>6, <1>13, <1>15, <3>3
  <2> QED BY <1>6, <1>8, <1>9, <1>11, <2>1
<1>16. CASE z # 0
  <2>1. b[z][1] \in {"head", "end"} /\ z \in 1 .. Len(b)
    BY <1>3, <1>4, <1>16 DEF StartsHead
  <2>2. p + z = e + 1
    BY <1>4, <1>10, <1>16, <2>1, HeadStart
  <2>3. s[c].bad # "head"
    <3>1. b[z][1] = Kind(s, e + 1)
      BY <1>6, <1>7, <2>1, <2>2
    <3> QED BY <1>13, <2>1, <3>1
  <2>4. PICK f \in Nat : f = HeadEnd(s, c) /\ Kind(s, f) = "end" /\ e < f /\ f <= End(s, c)
    BY <1>11, <1>13, <2>3
  <2>5. ~(f <= p + n)
    <3>1. SUFFICES ASSUME f <= p + n PROVE FALSE
      OBVIOUS
    <3>2. p < f
      BY <1>8, <1>10, <2>4
    <3>3. PICK i \in 1 .. n : b[i][1] = Kind(s, f)
      BY <1>14, <3>1, <3>2
    <3> QED BY <1>3, <1>5, <1>6, <1>16, <2>4, <3>3
  <2> QED BY <1>6, <1>8, <1>9, <1>11, <2>4, <2>5
<1> QED BY <1>15, <1>16

\* In a body that is not complete, the request is not read to its end.
LEMMA BodyShort ==
  ASSUME NEW s \in Seq(Requests), NEW n, NEW st \in {"fixed", "chunk"}, NEW k, NEW p, NEW b, NEW nd,
         Stand(st, s, n, k, p, b, nd), nd > 0
  PROVE  k = n + 1 /\ k \in 1 .. Len(s) /\ p < End(s, k)
<1>1. k = n + 1
  BY DEF Stand
<1>2. CASE st = "fixed"
  <2>1. AtFixed(s, k, p, b, nd)
    BY <1>2 DEF Stand
  <2>2. k \in 1 .. Len(s) /\ p + nd = End(s, k) /\ p \in Nat /\ nd \in Nat
    BY <2>1 DEF AtFixed, Usable, Reads
  <2> QED BY <1>1, <2>2
<1>3. CASE st = "chunk"
  <2>1. AtChunk(s, k, p, b, nd)
    BY <1>3 DEF Stand
  <2>2. k \in 1 .. Len(s) /\ s[k].bad # "head" /\ s[k].chunked /\ p \in Nat /\ nd \in Nat
    BY <2>1 DEF AtChunk, Usable, Reads
  <2>3. PICK c \in 1 .. Len(s[k].chunks) : p + nd + 1 = ChunkEnd(s, k, c)
    BY <2>1 DEF AtChunk
  <2>4. c \in 0 .. Len(s[k].chunks)
    OBVIOUS
  <2>5. ChunkEnd(s, k, c) \in Nat /\ End(s, k) \in Nat /\ ChunkEnd(s, k, c) + 3 <= End(s, k)
    BY <2>2, <2>4, ChunkWithin
  <2> QED BY <1>1, <2>2, <2>3, <2>5
<1> QED BY <1>2, <1>3

\* After p there is an end of line in request k.
NlIn(s, k, p) ==
  End(s, k) \in Nat /\ \E q \in Nat : p < q /\ q <= End(s, k) /\ Kind(s, q) = "nl"

\* Before the end of a line of a chunked body there is an end of line to come, in
\* the same request.
LEMMA NlAhead ==
  ASSUME NEW s \in Seq(Requests), NEW n, NEW st \in {"size", "crlf", "last"}, NEW k, NEW p, NEW b, NEW nd,
         Stand(st, s, n, k, p, b, nd)
  PROVE  k = n + 1 /\ NlIn(s, k, p)
<1>1. k = n + 1
  BY DEF Stand
<1>2. Usable(s, k) /\ s[k].chunked /\ p \in Nat
  <2>1. CASE st = "size"
    BY <2>1 DEF Stand, AtSize, Reads
  <2>2. CASE st = "crlf"
    BY <2>2 DEF Stand, AtChunk, Reads
  <2>3. CASE st = "last"
    BY <2>3 DEF Stand, AtLast, Reads
  <2> QED BY <2>1, <2>2, <2>3
<1>3. k \in 1 .. Len(s) /\ s[k].bad # "head" /\ s[k].chunked
  BY <1>2 DEF Usable
<1> DEFINE m == Len(s[k].chunks)
           w == Sent(s)
           C(c) == ChunkEnd(s, k, c)
<1>4. /\ m \in Nat /\ w[C(m) + 2] = Unit("nl", k, 0) /\ w[End(s, k)] = Unit("nl", k, 0)
  BY <1>3, ChunkedBody, Zenon
<1>5. \A c \in 1 .. m : ChunkAt(s, k, c)
  BY <1>3, ChunkedBody, Zenon
<1>6. \A c \in 1 .. m : w[C(c - 1) + 2] = Unit("nl", k, 0) /\ w[C(c)] = Unit("nl", k, 0)
  BY <1>5, Zenon DEF ChunkAt
<1>7. \A c \in 0 .. m : C(c) \in Nat /\ C(c) + 3 <= End(s, k)
  BY <1>3, ChunkWithin
<1>8. End(s, k) \in Nat
  BY <1>3, Request
<1>9. \A q : w[q] = Unit("nl", k, 0) => Kind(s, q) = "nl"
  BY DEF Kind, Unit
<1>10. CASE st = "size"
  <2>1. PICK c \in 0 .. m : p = C(c)
    BY <1>10 DEF Stand, AtSize
  <2>2. w[C(c) + 2] = Unit("nl", k, 0)
    <3>1. CASE c = m
      BY <1>4, <3>1
    <3>2. CASE c # m
      <4>1. c + 1 \in 1 .. m /\ (c + 1) - 1 = c
        BY <1>4, <3>2
      <4> QED BY <1>6, <4>1
    <3> QED BY <3>1, <3>2
  <2>3. Kind(s, p + 2) = "nl"
    BY <1>9, <2>1, <2>2
  <2>4. p + 2 \in Nat /\ p < p + 2 /\ p + 2 <= End(s, k)
    BY <1>7, <1>8, <2>1
  <2> QED BY <1>1, <1>8, <2>3, <2>4 DEF NlIn
<1>11. CASE st = "crlf"
  <2>1. PICK c \in 1 .. m : p + 0 + 1 = C(c)
    BY <1>11 DEF Stand, AtChunk
  <2>2. c \in 0 .. m
    OBVIOUS
  <2>3. Kind(s, C(c)) = "nl"
    BY <1>6, <1>9
  <2>4. C(c) \in Nat /\ p < C(c) /\ C(c) <= End(s, k)
    BY <1>2, <1>7, <1>8, <2>1, <2>2
  <2> QED BY <1>1, <1>8, <2>3, <2>4 DEF NlIn
<1>12. CASE st = "last"
  <2>1. p = C(m) + 2
    BY <1>12 DEF Stand, AtLast
  <2>2. m \in 0 .. m
    BY <1>4
  <2>3. p < End(s, k)
    <3>1. PICK f \in Nat : f = C(m) /\ f + 3 <= End(s, k)
      BY <1>7, <2>2
    <3> QED BY <1>8, <2>1, <3>1
  <2>4. Kind(s, End(s, k)) = "nl"
    BY <1>4, <1>9
  <2> QED BY <1>1, <1>8, <2>3, <2>4 DEF NlIn
<1> QED BY <1>10, <1>11, <1>12

\* A parser that waits for its client has not read all of the next request.
LEMMA WaitsShort ==
  ASSUME Followed, impl # "echo", Reading, NEW p \in Nat, PlacedAt(p), LineSoFar,
         Len(handled) < Len(script)
  PROVE  Reached(p, line, buf) < End(script, Len(handled) + 1)
<1>0. ConnType
  BY DEF Followed, Answering
<1>1. PICK s \in Seq(Requests) : s = script
  BY <1>0 DEF ConnType
<1>2. buf \in Seq(Units) /\ line \in Seq(Units) /\ Len(handled) \in Nat /\ need \in Nat
  BY <1>0 DEF ConnType
<1>3. PICK n \in Nat : n = Len(handled)
  BY <1>2
<1>4. Stand(stage, s, n, cur, p, body, need) /\ Streams(Sent(s), p, line, buf, wire)
  BY <1>1, <1>3 DEF PlacedAt
<1>5. CASE stage = "headers" /\ httparse(buf).status = "partial"
  <2>1. line = <<>> /\ Done(s, p, n)
    BY <1>4, <1>5 DEF LineSoFar, Stand
  <2>2. Len(line) = 0 /\ Len(buf) \in Nat
    BY <1>2, <2>1
  <2>3. p + Len(line) = p /\ Reached(p, line, buf) = p + Len(buf)
    BY <2>2 DEF Reached
  <2>4. Window(Sent(s), buf, p)
    BY <1>4, <2>3 DEF Streams
  <2>5. p + Len(buf) < End(s, n + 1)
    BY <1>1, <1>2, <1>3, <1>5, <2>1, <2>4, PartialShort
  <2> QED BY <1>1, <1>3, <2>3, <2>5
<1>6. CASE stage \in {"size", "crlf", "last"} /\ LineEnd = 0
  <2>1. cur = n + 1 /\ NlIn(s, cur, p)
    BY <1>4, <1>6, NlAhead
  <2>2. PICK q \in Nat : p < q /\ q <= End(s, cur) /\ Kind(s, q) = "nl"
    BY <2>1 DEF NlIn
  <2>3. \A i \in 1 .. Len(buf) : buf[i][1] # "nl"
    BY <1>2, <1>6, LineEndIs
  <2>4. \A j \in 1 .. Len(line) : line[j][1] # "nl"
    BY DEF LineSoFar
  <2>5. Reached(p, line, buf) < q
    BY <1>2, <1>4, <2>2, <2>3, <2>4, BeforeNl
  <2>6. Reached(p, line, buf) \in Nat
    BY <1>2 DEF Reached
  <2> QED BY <1>1, <1>3, <2>1, <2>2, <2>5, <2>6 DEF NlIn
<1>7. CASE stage \in {"fixed", "chunk"} /\ need > 0 /\ buf = <<>>
  <2>1. line = <<>>
    BY <1>7 DEF LineSoFar
  <2>2. Reached(p, line, buf) = p
    BY <1>7, <2>1 DEF Reached
  <2>3. cur = n + 1 /\ p < End(s, cur)
    BY <1>4, <1>7, BodyShort
  <2> QED BY <1>1, <1>3, <2>2, <2>3
<1> QED BY <1>5, <1>6, <1>7 DEF Reading

\* What is missing of the next request has arrived, or some of it: the client has
\* sent it, all at once or because it has the answers it waits for.
LEMMA SomeArrived ==
  ASSUME ConnType, NEW f \in Nat, Window(Sent(script), wire, f),
         f + Len(wire) = Len(Sent(script)), Len(responses) < Len(script),
         f < End(script, Len(responses) + 1)
  PROVE  Arrived > 0
<1>1. PICK s \in Seq(Requests) : s = script
  BY DEF ConnType
<1>2. PICK r \in Nat : r = Len(responses)
  BY DEF ConnType
<1>3. PICK l \in Nat : l = Len(wire)
  BY DEF ConnType
<1>4. /\ Len(s) \in Nat /\ Len(Sent(s)) = End(s, Len(s))
      /\ \A i \in 0 .. Len(s) : End(s, i) \in Nat
      /\ \A i, j \in 0 .. Len(s) : i <= j => End(s, i) <= End(s, j)
  BY SentShape
<1>5. r + 1 \in 0 .. Len(s) /\ Len(s) \in 0 .. Len(s) /\ r + 1 <= Len(s)
  BY <1>1, <1>2, <1>4
<1>6. End(s, r + 1) \in Nat /\ End(s, r + 1) <= Len(Sent(s)) /\ f < End(s, r + 1)
  BY <1>1, <1>2, <1>4, <1>5
<1>7. l > 0 /\ f + 1 \in 1 .. Len(Sent(s))
  <2>1. Len(Sent(s)) \in Nat /\ f + l = Len(Sent(s))
    BY <1>1, <1>3, <1>4, <1>5
  <2> QED BY <1>6, <2>1
<1>8. PICK k \in 1 .. Len(s) : End(s, k - 1) < f + 1 /\ f + 1 <= End(s, k)
  BY <1>7, SentShape
<1>9. /\ End(s, k - 1) \in Nat /\ End(s, k) \in Nat
      /\ \A x \in End(s, k - 1) + 1 .. End(s, k) : Sent(s)[x][2] = k
  BY Request
<1>10. Sent(s)[f + 1][2] = k
  <2>1. f + 1 \in End(s, k - 1) + 1 .. End(s, k)
    BY <1>8, <1>9
  <2> QED BY <1>9, <2>1
<1>11. k <= r + 1
  <2>1. SUFFICES ASSUME r + 1 <= k - 1 PROVE FALSE
    BY <1>2, <1>4
  <2>2. k - 1 \in 0 .. Len(s)
    BY <1>4
  <2>3. End(s, r + 1) <= End(s, k - 1)
    BY <1>4, <1>5, <2>1, <2>2
  <2> QED BY <1>6, <1>8, <1>9, <2>3
<1>12. wire[1] = Sent(s)[f + 1]
  BY <1>1, <1>3, <1>7 DEF Window
<1>13. ~(wire[1][2] > r + 1)
  BY <1>10, <1>11, <1>12
<1>14. CASE client = "pipelines"
  BY <1>3, <1>7, <1>14 DEF Arrived
<1>15. CASE client # "pipelines"
  <2> DEFINE I == {i \in 1 .. l : wire[i][2] > r + 1}
  <2>1. PICK z : z = IF I # {} THEN Min(I) ELSE 0
    OBVIOUS
  <2>2. Arrived = IF z = 0 THEN l ELSE z - 1
    BY <1>2, <1>3, <1>15, <2>1 DEF Arrived, SelectInSeq
  <2>3. I \subseteq 1 .. l /\ 1 \notin I
    BY <1>13
  <2> HIDE DEF I
  <2>4. z \in 0 .. l /\ (z # 0 => z \in I)
    BY <2>1, <2>3, SelectedFirst
  <2>5. z = 0 \/ z > 1
    BY <2>3, <2>4
  <2> QED BY <1>7, <2>2, <2>4, <2>5
<1> QED BY <1>14, <1>15

(***************************************************************************)
(* The space for a read, and the state of a connection that is served.     *)
(***************************************************************************)

\* The buffer has a size, and the parser never holds more than that in it.
Fits == cap \in Nat \ {0} /\ (impl # "echo" => Len(buf) <= cap)

\* A connection that was closed by its task is done for its server too.
ClosedIsDone == stage = "closed" => impl # "hyper" /\ conn[Watched] = "done"

\* At the start.
LEMMA FitsInit == ASSUME Init PROVE Fits /\ ClosedIsDone
<1>0. PICK i \in Instances, how \in {"pipelines", "sequential"} :
        /\ InitLoop(i.server, i.cores, i.conns)
        /\ \E s \in i.scripts : InitConnection(ImplOf(i.server), how, s)
  BY DEF Init
<1>1. PICK s \in i.scripts : InitConnection(ImplOf(i.server), how, s)
  BY <1>0
<1>2. /\ cap = InitialBuf /\ buf = <<>> /\ impl = ImplOf(i.server)
      /\ stage = IF impl = "echo" THEN "recv" ELSE "headers"
  BY <1>1 DEF InitConnection
<1>4. Len(buf) = 0 /\ InitialBuf \in Nat \ {0}
  BY <1>2, BufAssumption
<1>5. Fits
  BY <1>2, <1>4 DEF Fits
<1>6. ClosedIsDone
  BY <1>2 DEF ClosedIsDone
<1> QED BY <1>5, <1>6

\* What leaves the buffer makes room.
LEMMA DropFits ==
  ASSUME Fits, ConnType, NEW n \in 0 .. Len(buf), buf' = Drop(buf, n), UNCHANGED <<impl, cap>>
  PROVE  Fits'
<1>1. buf \in Seq(Units)
  BY DEF ConnType
<1>2. Len(Drop(buf, n)) = Len(buf) - n /\ Len(buf) \in Nat
  BY <1>1 DEF Drop
<1> QED BY <1>2 DEF Fits

\* A read fills no more than the buffer has.
LEMMA ReadFits ==
  ASSUME Fits, ConnType, impl # "echo", NEW size \in Nat, cap <= size, cap' = size, impl' = impl,
         NEW kept \in Seq(Units), NEW n \in ReadCounts(size - Len(kept)),
         buf' = kept \o Take(wire, n)
  PROVE  Fits'
<1>1. Len(kept) \in Nat /\ size - Len(kept) \in Int
  OBVIOUS
<1>2. PICK space \in Int : space = size - Len(kept)
  BY <1>1
<1>3. n \in ReadCounts(space)
  BY <1>2
<1>4. n \in 0 .. Len(wire) /\ n <= space /\ Take(wire, n) \in Seq(Units) /\ wire \in Seq(Units)
  BY <1>3, ReadType DEF ConnType
<1>5. Len(Take(wire, n)) = n /\ n \in Nat
  BY <1>4 DEF Take
<1>6. PICK t \in Seq(Units) : t = Take(wire, n) /\ Len(t) = n
  BY <1>4, <1>5
<1>7. Len(kept \o t) = Len(kept) + Len(t)
  BY <1>6
<1>8. Len(buf') = Len(kept) + n
  BY <1>6, <1>7
<1>9. Len(buf') <= size
  BY <1>1, <1>2, <1>4, <1>5, <1>8
<1> QED BY <1>9 DEF Fits

\* Every step of the connection keeps to the buffer.
LEMMA FitsStep == ASSUME Fits, ConnType, ConnectionNext PROVE Fits'
<1>t. /\ buf \in Seq(Units) /\ Len(buf) \in Nat /\ cap \in Nat \ {0} /\ need \in Nat
      /\ wire \in Seq(Units)
  BY DEF ConnType, Fits
<1>0. ASSUME UNCHANGED <<impl, cap>>, buf' = buf \/ buf' = <<>> PROVE Fits'
  BY <1>t, <1>0 DEF Fits
<1>c. ASSUME Closed PROVE Fits'
  BY <1>0, <1>c DEF Closed, clientVars
<1>f. ASSUME NEW e, Fail(e) PROVE Fits'
  BY <1>0, <1>f DEF Fail, clientVars
<1>1. CASE ParseHeaders
  <2>1. PICK l : l = httparse(buf).len
    OBVIOUS
  <2>2. l \in 1 .. Len(buf) /\ buf' = Drop(buf, l) /\ UNCHANGED <<impl, cap>>
    BY <1>1, <2>1, ParsedLen DEF ParseHeaders, clientVars
  <2>3. l \in 0 .. Len(buf)
    BY <2>2
  <2> QED BY <2>2, <2>3, DropFits
<1>2. CASE ParseRefused \/ ReadFails
  BY <1>2, <1>f DEF ParseRefused, ReadFails
<1>3. CASE impl # "echo" /\ ReadMore
  <2>1. CASE Fail("too_large") \/ Closed
    BY <1>c, <1>f, <2>1
  <2>2. CASE /\ \E n \in ReadCounts(Grown - Len(buf)) : buf' = buf \o Take(wire, n)
             /\ cap' = Grown /\ impl' = impl
    <3>1. PICK size \in Nat : size = Grown /\ cap <= size
      BY <1>t DEF Grown
    <3> QED BY <1>t, <1>3, <2>2, <3>1, ReadFits
  <2> QED BY <1>3, <2>1, <2>2 DEF ReadMore
<1>4. CASE FromBuffer
  <2>1. PICK n \in 0 .. Len(buf) : n = Least(Len(buf), need)
    BY <1>t DEF Least
  <2> QED BY <1>4, <2>1, DropFits DEF FromBuffer, clientVars
<1>5. ASSUME NEW limit, ReadExact(limit) PROVE Fits'
  BY <1>0, <1>5, <1>c DEF ReadExact
<1>6. CASE ExactDone \/ Handle \/ BadRequest
  BY <1>0, <1>6, <1>f DEF ExactDone, Handle, BadRequest, clientVars
<1>7. CASE impl # "echo" /\ ReadLine
  <2>1. CASE Closed
    BY <1>c, <2>1
  <2>2. CASE buf' = Drop(buf, LineEnd) /\ UNCHANGED <<impl, cap>>
    <3>1. PICK l \in 0 .. Len(buf) : l = LineEnd
      BY LineEndType
    <3> QED BY <2>2, <3>1, DropFits
  <2>3. CASE (\E n \in ReadCounts(cap) : buf' = Take(wire, n)) /\ UNCHANGED <<impl, cap>>
    <3>1. PICK n \in ReadCounts(cap) : buf' = Take(wire, n)
      BY <2>3
    <3>2. cap \in Int
      BY <1>t
    <3>3. n \in 0 .. Len(wire) /\ n <= cap
      BY <3>2, ReadType
    <3>4. Len(buf') = n
      BY <1>t, <3>1, <3>3 DEF Take
    <3> QED BY <1>t, <2>3, <3>3, <3>4 DEF Fits
  <2> QED BY <1>7, <2>1, <2>2, <2>3 DEF ReadLine, clientVars
<1>8. ASSUME NEW left, left = buf \/ left = <<>>, Write(left) PROVE Fits'
  BY <1>0, <1>8 DEF Write, clientVars
<1>9. CASE EchoRecv \/ EchoSend
  <2>1. impl = "echo" /\ UNCHANGED <<impl, cap>>
    BY <1>9 DEF EchoRecv, EchoSend, Closed, clientVars
  <2> QED BY <2>1 DEF Fits
<1>10. CASE ClientClose \/ ClientReset
  BY <1>0, <1>10 DEF ClientClose, ClientReset, parserVars
<1>11. CASE HttpParser \/ KimojioHttpParser
  BY <1>1, <1>2, <1>3, <1>11 DEF HttpParser, KimojioHttpParser
<1>12. CASE HttpParserBody \/ KimojioHttpParserBody
  BY <1>4, <1>5, <1>6, <1>7, <1>12 DEF HttpParserBody, KimojioHttpParserBody
<1>13. CASE handle_connection \/ handle_http_connection
  BY <1>6, <1>8, <1>13 DEF handle_connection, handle_http_connection, reset
<1> QED BY <1>9, <1>10, <1>11, <1>12, <1>13 DEF ConnectionNext, Server

\* The loops leave a connection that is over alone, but for a client that
\* connects again.
LEMMA DoneStays ==
  ASSUME LoopInv, LoopNext, NEW k \in Clients, conn[k] = "done"
  PROVE  conn'[k] \in {"done", "queued"}
<1>t. conn \in [Clients -> ConnStates]
  BY DEF LoopInv, LoopTypeOK
<1>0. ASSUME NEW j \in Clients, NEW s, conn' = [conn EXCEPT ![j] = s], conn[j] # "done" \/ s = "queued"
      PROVE  conn'[k] \in {"done", "queued"}
  BY <1>t, <1>0
<1>1. ASSUME NEW c, Accepted(c) PROVE conn'[k] \in {"done", "queued"}
  BY <1>0, <1>1 DEF Accepted, Queued
<1>2. ASSUME NEW c, NEW how, EndLoop(c, how) PROVE conn'[k] \in {"done", "queued"}
  BY <1>2 DEF EndLoop
<1>3. ASSUME NEW c, SelectLoop(c) PROVE conn'[k] \in {"done", "queued"}
  BY <1>1, <1>2, <1>3 DEF SelectLoop, SelectAccept, SelectStop
<1>4. CASE MainStep \/ CtrlC
  BY <1>4 DEF MainStep, Spawned, TokioBind, CoreZeroEnded, Join, CtrlC
<1>5. CASE LcoreServer
  BY <1>3, <1>5 DEF LcoreServer, SimpleHttp1Server, HttpAutoServer, Http1Server, Http2Server, EchoServer, AxumServe
<1>6. CASE TokioSelect
  BY <1>1, <1>2, <1>6 DEF TokioSelect
<1>7. ASSUME NEW c \in cores, CoreStep(c) PROVE conn'[k] \in {"done", "queued"}
  BY <1>1, <1>2, <1>3, <1>7 DEF CoreStep, Spawn, Bind, RunAcceptLoop, KimojioLoop
<1>8. CASE LocalSetDropped
  BY <1>8 DEF LocalSetDropped
<1>9. ASSUME NEW c \in cores, BindFails(c) PROVE conn'[k] \in {"done", "queued"}
  BY <1>2, <1>9 DEF BindFails
<1>10. ASSUME NEW c \in cores, NEW j \in Clients, Connect(j, c) PROVE conn'[k] \in {"done", "queued"}
  BY <1>0, <1>10 DEF Connect
<1>11. ASSUME NEW j \in Clients, HyperServe(j) \/ with_collected_body(j)
       PROVE  conn'[k] \in {"done", "queued"}
  BY <1>0, <1>11 DEF HyperServe, with_collected_body, SetConn
<1> QED BY <1>4, <1>5, <1>6, <1>7, <1>8, <1>9, <1>10, <1>11 DEF LoopNext, LoopStep

\* The task closes a connection once, and it is not opened again.
LEMMA ClosedStep == ASSUME ClosedIsDone, LoopInv, [Next]_vars PROVE ClosedIsDone'
<1>t. Watched \in Clients /\ conn \in [Clients -> ConnStates]
  BY DEF LoopInv, LoopTypeOK
<1>1. CASE Serve
  <2>1. impl # "hyper" /\ conn' = [conn EXCEPT ![Watched] = IF stage' = "closed" THEN "done" ELSE @]
    BY <1>1 DEF Serve, Serving
  <2>2. impl' = impl
    BY <1>1 DEF Serve, ConnectionNext, Server, EchoRecv, EchoSend, HttpParser, HttpParserBody,
                handle_connection, KimojioHttpParser, KimojioHttpParserBody, handle_http_connection,
                ParseHeaders, ParseRefused, ReadMore, ReadFails, FromBuffer, ReadExact, ExactDone, ReadLine,
                Handle, Write, BadRequest, ClientClose, ClientReset, Closed, Fail, clientVars
  <2> QED BY <1>t, <2>1, <2>2 DEF ClosedIsDone
<1>2. CASE Loop(LoopNext)
  <2>1. UNCHANGED <<impl, stage>>
    BY <1>2 DEF Loop, connectionVars, clientVars, parserVars
  <2>2. SUFFICES ASSUME stage = "closed" PROVE ClosedIsDone'
    BY <2>1 DEF ClosedIsDone
  <2>3. impl # "hyper" /\ conn[Watched] = "done"
    BY <2>2 DEF ClosedIsDone
  <2>4. conn'[Watched] \in {"done", "queued"}
    BY <1>t, <1>2, <2>3, DoneStays DEF Loop
  <2>5. conn'[Watched] # "queued"
    BY <1>2, <2>3 DEF Loop
  <2> QED BY <2>1, <2>3, <2>4, <2>5 DEF ClosedIsDone
<1>3. ASSUME NEW k \in Clients, OtherDone(k) PROVE ClosedIsDone'
  BY <1>t, <1>3 DEF OtherDone, SetConn, ClosedIsDone, connectionVars, clientVars, parserVars
<1>4. CASE UNCHANGED vars
  BY <1>4 DEF vars, connectionVars, clientVars, parserVars, loopVars, ClosedIsDone
<1> QED BY <1>1, <1>2, <1>3, <1>4 DEF Next

\* The invariant of RequestsMoveOn.
Going == Followed /\ LoopInv /\ Fits /\ ClosedIsDone

\* Every step keeps it.
LEMMA GoingStep == ASSUME Going, [Next]_vars PROVE Going'
<1>1. Followed' /\ LoopInv' /\ ClosedIsDone'
  BY FollowedStep, NextLoopInv, ClosedStep DEF Going
<1>2. Fits'
  <2>1. CASE Serve
    BY <2>1, FitsStep DEF Going, Followed, Answering, Serve
  <2>2. CASE Loop(LoopNext) \/ (\E k \in Clients : OtherDone(k)) \/ UNCHANGED vars
    <3>1. UNCHANGED <<impl, cap, buf>>
      BY <2>2 DEF Loop, OtherDone, vars, connectionVars, clientVars, parserVars
    <3> QED BY <3>1 DEF Going, Fits
  <2> QED BY <2>1, <2>2 DEF Next
<1> QED BY <1>1, <1>2 DEF Going

\* A read of a parser that is not full has room.
LEMMA HasRoom == ASSUME Going, impl # "echo", Reading, ~HeadersTooLarge PROVE Room > 0
<1>1. cap \in Nat \ {0} /\ Len(buf) \in Nat /\ Len(buf) <= cap /\ need \in Nat
  BY DEF Going, Fits, Followed, Answering, ConnType
<1>2. CASE stage = "headers"
  <2>1. Grown > Len(buf)
    BY <1>1 DEF Grown
  <2>2. Grown \in Nat
    BY <1>1 DEF Grown
  <2> QED BY <1>1, <1>2, <2>1, <2>2 DEF Room
<1>3. CASE stage \in {"fixed", "chunk"}
  BY <1>3 DEF Room, Reading
<1>4. CASE stage \notin {"headers", "fixed", "chunk"}
  BY <1>1, <1>4 DEF Room
<1> QED BY <1>2, <1>3, <1>4

\* No request of an accepted connection waits for bytes that will not come: while
\* the client is there and the server runs, handle_connection has a step to take
\* until it has answered or refused the whole script, however the stream was cut
\* into reads and whatever was left in the buffer.  It is the safety half of
\* Answered, for every script of honest requests, buffer and read size.
THEOREM RequestsNeverStarve == Spec => []RequestsMoveOn
<1>1. Init => Going
  BY FollowedInit, InitLoopInv, FitsInit DEF Going
<1>2. Going /\ [Next]_vars => Going'
  BY GoingStep
<1>3. Going => RequestsMoveOn
  <2>1. SUFFICES ASSUME Going, Serving, impl # "echo", ~eof, ~broken, Len(responses) < Len(script)
                 PROVE  /\ stage \in Working \cup {"bad_request"}
                        /\ Reading /\ ~HeadersTooLarge => Arrived > 0 /\ Room > 0
    BY DEF RequestsMoveOn
  <2>2. Followed /\ ConnType /\ Turns
    BY <2>1 DEF Going, Followed, Answering
  <2>3. stage # "closed"
    BY <2>1 DEF Going, ClosedIsDone, Serving
  <2>4. stage \in Working \cup {"bad_request"}
    BY <2>1, <2>2, <2>3 DEF ConnType, Parsing, Working
  <2>5. ASSUME Reading, ~HeadersTooLarge PROVE Arrived > 0 /\ Room > 0
    <3>1. stage \in Working /\ stage \in Parsing
      BY <2>5 DEF Reading, Working, Parsing
    <3>2. LineSoFar /\ \E p \in Nat : PlacedAt(p)
      BY <2>1, <2>2, <3>1 DEF Followed, Following
    <3>3. PICK p \in Nat : PlacedAt(p)
      BY <3>2
    <3>4. Len(responses) = Len(handled)
      BY <2>2, <3>1 DEF Turns
    <3>5. PICK f \in Nat : f = Reached(p, line, buf)
      <4>1. Len(line) \in Nat /\ Len(buf) \in Nat
        BY <2>2 DEF ConnType
      <4> QED BY <4>1 DEF Reached
    <3>6. f < End(script, Len(responses) + 1)
      BY <2>1, <2>2, <2>5, <3>2, <3>3, <3>4, <3>5, WaitsShort
    <3>7. Window(Sent(script), wire, f) /\ f + Len(wire) = Len(Sent(script))
      BY <2>1, <3>3, <3>5 DEF PlacedAt, Streams, Reached, Kept, AllThere
    <3>8. Arrived > 0
      BY <2>1, <2>2, <3>6, <3>7, SomeArrived
    <3> QED BY <2>1, <2>5, <3>8, HasRoom
  <2> QED BY <2>4, <2>5
<1> QED BY <1>1, <1>2, <1>3, PTL DEF Spec

-----------------------------------------------------------------------------
(* The connection pool.                                                    *)

\* The invariant of the pool's lists alone, and of the call that borrows it.
Lists ==
  \A h \in Hosts :
    /\ Len(connections[h]) <= MaxIdle
    /\ IsInjective(connections[h])
    /\ \A c \in ToSet(connections[h]) :
         to[c] = h /\ state[c] \in P!Alive \cup {"dead"} /\ c \notin mine

Borrowed ==
  /\ call.at = "given" =>
       to[call.conn] = call.host /\ state[call.conn] \in {"new", "idle", "dead"}
  /\ call.at = "opening" =>
       /\ state[call.conn] \in {"tcp", "handshake"} /\ call.conn \notin mine
       /\ to[call.conn] = call.host
  /\ call.at \in {"given", "used", "awaiting"} =>
       call.conn \in ToSet(connections[call.host])

Others ==
  /\ \A c \in mine : state[c] # "unused"
  /\ Version = "Http2" => \A c \in Conns : state[c] # "busy"

PoolInv == P!TypeOK /\ ~panicked /\ Lists /\ Borrowed /\ Others

\* What a list may be told of its elements.
LEMMA Members ==
  ASSUME P!TypeOK, NEW h \in Hosts
  PROVE  ToSet(connections[h]) \subseteq Conns
  BY DEF P!TypeOK, ToSet

\* An empty pool is sound.
LEMMA PoolInit == ASSUME P!Parameters, P!Init PROVE PoolInv
<1>1. P!TypeOK
  <2>1. connections \in [Hosts -> Seq(Conns)]
    BY DEF P!Init
  <2>2. /\ state \in [Conns -> P!ConnStates] /\ to \in [Conns -> Hosts \cup {Nobody}]
        /\ mine \subseteq Conns
    BY DEF P!Init, P!ConnStates
  <2>3. /\ call \in [at : P!CallSteps, host : Hosts \cup {Nobody},
                    conn : Conns \cup {Nobody}]
        /\ call.at = "free"
    BY DEF P!Init, P!Free, P!CallSteps
  <2>4. panicked \in BOOLEAN
    BY DEF P!Init
  <2> QED BY <2>1, <2>2, <2>3, <2>4 DEF P!TypeOK
<1>2. Lists
  BY Empty DEF P!Parameters, P!Init, Lists
<1> QED
  BY <1>1, <1>2 DEF P!Init, PoolInv, Borrowed, Others, P!Free

\* The call goes on, is used, or ends.
CallMoves ==
  \/ UNCHANGED call
  \/ call' = P!Free
  \/ /\ call.at \in {"given", "used"}
     /\ \E a \in {"used", "awaiting"} : call' = [call EXCEPT !.at = a]

\* A step of a call keeps its host and connection until it is free.
LEMMA CallTyped ==
  ASSUME P!TypeOK, CallMoves
  PROVE  /\ call' \in [at : P!CallSteps, host : Hosts \cup {Nobody},
                      conn : Conns \cup {Nobody}]
         /\ call'.at # "free" =>
              call'.conn = call.conn /\ call'.host = call.host /\ call.at # "free"
         /\ call'.at \in {"given", "opening"} => call' = call
         /\ call'.at \in {"used", "awaiting"} =>
              call.at \in {"given", "used", "awaiting"}
<1>1. CASE UNCHANGED call BY <1>1 DEF P!TypeOK
<1>2. CASE call' = P!Free BY <1>2 DEF P!Free, P!CallSteps
<1>3. ASSUME call.at \in {"given", "used"}, NEW a \in {"used", "awaiting"},
             call' = [call EXCEPT !.at = a]
      PROVE  /\ call' \in [at : P!CallSteps, host : Hosts \cup {Nobody},
                          conn : Conns \cup {Nobody}]
             /\ call'.conn = call.conn /\ call'.host = call.host
             /\ call'.at = a
  BY <1>3 DEF P!TypeOK, P!CallSteps
<1> QED BY <1>1, <1>2, <1>3 DEF CallMoves

\* A step that moves one connection on and leaves the lists and the call
\* alone keeps the invariant when it keeps what the lists and the call need.
LEMMA PooledMoves ==
  ASSUME PoolInv, NEW c \in Conns, NEW s \in P!ConnStates,
         state' = [state EXCEPT ![c] = s],
         UNCHANGED <<connections, to, mine, panicked>>,
         state[c] \in P!Alive \cup {"dead"} => s \in P!Alive \cup {"dead"},
         s # "unused",
         Version = "Http2" => s # "busy",
         CallMoves,
         call'.at = "given" /\ call.conn = c => s \in {"new", "idle", "dead"},
         call'.at = "opening" /\ call.conn = c => s \in {"tcp", "handshake"},
         Nobody \notin Hosts \cup Conns
  PROVE  PoolInv'
<1> USE DEF PoolInv
<1>0. /\ call' \in [at : P!CallSteps, host : Hosts \cup {Nobody},
                   conn : Conns \cup {Nobody}]
      /\ call'.at # "free" =>
           call'.conn = call.conn /\ call'.host = call.host /\ call.at # "free"
      /\ call'.at \in {"given", "opening"} => call' = call
      /\ call'.at \in {"used", "awaiting"} =>
           call.at \in {"given", "used", "awaiting"}
  BY CallTyped
<1>1. P!TypeOK'
  <2>1. panicked' \in BOOLEAN BY DEF P!TypeOK
  <2> QED BY <1>0, <2>1 DEF P!TypeOK
<1>2. Lists'
  <2>1. ASSUME NEW h \in Hosts, NEW d \in ToSet(connections[h])
        PROVE  state'[d] \in P!Alive \cup {"dead"}
    <3>1. d \in Conns BY Members
    <3> QED BY <3>1 DEF Lists, P!TypeOK
  <2> QED BY <2>1 DEF Lists
<1>3. Borrowed'
  BY <1>0 DEF Borrowed, P!TypeOK
<1>4. Others'
  BY DEF Others, P!TypeOK
<1> QED BY <1>1, <1>2, <1>3, <1>4

\* A request leaves its connection taken, or as it was.
LEMMA SendMoves ==
  ASSUME P!Parameters, PoolInv, NEW c \in Conns, P!send_request(c), CallMoves,
         state[c] \in P!Alive \cup {"dead"},
         call'.at = "given" => call.conn # c,
         call'.at = "opening" => call.conn # c,
         UNCHANGED <<connections, to, mine, panicked>>
  PROVE  PoolInv'
<1>1. CASE P!Accepts(c)
  <2>1. state' = [state EXCEPT ![c] = P!Taken]
    BY <1>1 DEF P!send_request
  <2>2. P!Taken \in P!ConnStates /\ P!Taken \in P!Alive /\ (Version = "Http2" => P!Taken # "busy")
    BY DEF P!Taken, P!ConnStates, P!Alive, P!Parameters
  <2> QED BY <2>1, <2>2, PooledMoves DEF P!Parameters, P!ConnStates, P!Alive
<1>2. CASE ~P!Accepts(c)
  <2>1. state' = [state EXCEPT ![c] = state[c]]
    BY <1>2 DEF P!send_request, PoolInv, P!TypeOK
  <2>2. /\ state[c] \in P!ConnStates /\ state[c] # "unused"
        /\ (Version = "Http2" => state[c] # "busy")
    BY DEF PoolInv, P!TypeOK, Others, P!Alive
  <2> QED BY <2>1, <2>2, PooledMoves DEF P!Parameters
<1> QED BY <1>1, <1>2

\* Every step of clients, drivers and hosts keeps the pool sound.
LEMMA PoolStep == ASSUME P!Parameters, PoolInv, [P!Next]_P!vars PROVE PoolInv'
<1> USE DEF P!ConnStates, P!Alive
<1>0. Nobody \notin Hosts \cup Conns /\ MaxIdle \in Nat /\ MaxIdle > 0
  BY DEF P!Parameters
<1>1. ASSUME NEW c \in Conns, P!DriverStarts(c) PROVE PoolInv'
  BY <1>0, <1>1, PooledMoves DEF P!DriverStarts, CallMoves, PoolInv, Borrowed
<1>2. ASSUME NEW c \in Conns, P!ExchangeDone(c) PROVE PoolInv'
  BY <1>0, <1>2, PooledMoves DEF P!ExchangeDone, CallMoves, PoolInv, Borrowed
<1>3. ASSUME NEW c \in Conns, P!Dies(c) PROVE PoolInv'
  BY <1>0, <1>3, PooledMoves DEF P!Dies, CallMoves, PoolInv, Borrowed, P!Free
<1>4. ASSUME NEW c \in Conns, P!TcpConnected(c) PROVE PoolInv'
  BY <1>0, <1>4, PooledMoves DEF P!TcpConnected, CallMoves, PoolInv, Borrowed
<1>5. ASSUME NEW c \in Conns, P!OpenFails(c) PROVE PoolInv'
  BY <1>0, <1>5, PooledMoves DEF P!OpenFails, CallMoves, PoolInv, Borrowed, P!Free
<1>6. ASSUME NEW c \in Conns, P!ClientConnected(c) PROVE PoolInv'
  BY <1>0, <1>6, PooledMoves DEF P!ClientConnected, CallMoves, PoolInv, Borrowed
<1>7. ASSUME NEW c \in Conns, P!ClientSend(c) PROVE PoolInv'
  <2>1. call.at \in {"given", "opening"} => call.conn # c
    BY <1>7 DEF P!ClientSend, PoolInv, Borrowed, Lists, P!TypeOK
  <2> QED BY <1>7, <2>1, SendMoves DEF P!ClientSend, CallMoves
<1>8. ASSUME NEW c \in Conns, P!Send(c) PROVE PoolInv'
  <2>1. state[c] \in P!Alive \cup {"dead"}
    BY <1>8 DEF P!Send, PoolInv, Borrowed, Lists, P!TypeOK
  <2>2. CallMoves /\ call'.at = "used"
    BY <1>8 DEF P!Send, CallMoves, PoolInv, P!TypeOK
  <2> QED BY <1>8, <2>1, <2>2, SendMoves DEF P!Send
<1>9. ASSUME NEW c \in Conns, P!request(c) PROVE PoolInv'
  <2>1. state[c] \in P!Alive \cup {"dead"}
    BY <1>9 DEF P!request, PoolInv, Borrowed, Lists, P!TypeOK
  <2>2. CallMoves /\ call'.at \in {"awaiting", "free"}
    BY <1>9 DEF P!request, CallMoves, PoolInv, P!TypeOK, P!Free
  <2> QED BY <1>9, <2>1, <2>2, SendMoves DEF P!request
<1>10. CASE P!Return
  BY <1>0, <1>10 DEF P!Return, PoolInv, P!TypeOK, Lists, Borrowed, Others, P!Free, P!CallSteps
<1>11. CASE P!clear
  <2>1. connections' \in [Hosts -> Seq(Conns)]
    BY <1>11 DEF P!clear
  <2>2. Lists'
    BY <1>0, <1>11, Empty DEF P!clear, Lists
  <2> QED BY <1>11, <2>1, <2>2 DEF P!clear, PoolInv, P!TypeOK, Borrowed, Others, P!Free
<1>12. ASSUME NEW h \in Hosts, P!Reuse(h) PROVE PoolInv'
  <2>1. PICK i \in DOMAIN connections[h] :
          /\ P!is_ready(connections[h][i])
          /\ call' = P!Call("given", h, connections[h][i])
    BY <1>12 DEF P!Reuse
  <2> DEFINE c == connections[h][i]
  <2>2. c \in ToSet(connections[h])
    BY <2>1 DEF ToSet
  <2>3. c \in Conns /\ to[c] = h /\ state[c] \in {"new", "idle", "dead"}
    BY <2>1, <2>2, Members DEF PoolInv, Lists, Others, P!is_ready, P!Parameters
  <2>4. call' = P!Call("given", h, c)
    BY <2>1
  <2> HIDE DEF c
  <2>5. UNCHANGED <<connections, state, to, panicked, mine>>
    BY <1>12 DEF P!Reuse
  <2>6. P!TypeOK'
    <3>1. call'.at = "given" /\ call'.host = h /\ call'.conn = c
      BY <2>4 DEF P!Call
    <3>2. call' \in [at : P!CallSteps, host : Hosts \cup {Nobody},
                     conn : Conns \cup {Nobody}]
      BY <2>3, <2>4 DEF P!Call, P!CallSteps
    <3>3. panicked' \in BOOLEAN BY <2>5 DEF PoolInv, P!TypeOK
    <3> QED BY <2>3, <2>5, <3>1, <3>2, <3>3 DEF PoolInv, P!TypeOK
  <2> QED
    BY <2>2, <2>3, <2>4, <2>5, <2>6
    DEF P!Call, PoolInv, Lists, Borrowed, Others
<1>13. ASSUME NEW h \in Hosts, NEW c \in Conns, P!connect_tcp(c, h),
              UNCHANGED <<connections, panicked>>,
              \/ UNCHANGED call /\ mine' = mine \cup {c}
              \/ call' = P!Call("opening", h, c) /\ UNCHANGED mine
       PROVE  PoolInv'
  <2>1. /\ state[c] = "unused" /\ c \notin mine
        /\ state' = [state EXCEPT ![c] = "tcp"] /\ to' = [to EXCEPT ![c] = h]
    BY <1>13 DEF P!connect_tcp, PoolInv, Others
  <2>2. ASSUME NEW g \in Hosts PROVE c \notin ToSet(connections[g])
    BY <2>1, <2>2 DEF PoolInv, Lists
  <2>3. P!TypeOK'
    <3>1. state' \in [Conns -> P!ConnStates] /\ to' \in [Conns -> Hosts \cup {Nobody}]
          /\ mine' \subseteq Conns
      BY <1>13, <2>1 DEF PoolInv, P!TypeOK
    <3>2. /\ call' \in [at : P!CallSteps, host : Hosts \cup {Nobody},
                        conn : Conns \cup {Nobody}]
          /\ call'.at # "free" => call'.conn \in Conns /\ call'.host \in Hosts
      BY <1>13 DEF P!Call, PoolInv, P!TypeOK, P!CallSteps
    <3>3. panicked' \in BOOLEAN BY <1>13 DEF PoolInv, P!TypeOK
    <3> QED BY <1>13, <3>1, <3>2, <3>3 DEF PoolInv, P!TypeOK
  <2>4. Lists'
    <3>1. ASSUME NEW g \in Hosts, NEW d \in ToSet(connections[g])
          PROVE  to'[d] = to[d] /\ state'[d] = state[d] /\ (d \in mine' <=> d \in mine)
      <4>1. d \in Conns /\ d # c
        BY <2>2, Members DEF PoolInv
      <4> QED BY <1>13, <2>1, <4>1 DEF PoolInv, P!TypeOK
    <3> QED BY <1>13, <3>1 DEF PoolInv, Lists
  <2>5. Borrowed'
    <3>1. CASE UNCHANGED call /\ mine' = mine \cup {c}
      <4>1. call.at \in {"given", "opening"} => call.conn # c /\ call.conn \in Conns
        BY <2>1 DEF PoolInv, Borrowed, P!TypeOK
      <4> QED BY <1>13, <2>1, <3>1, <4>1 DEF PoolInv, Borrowed, P!TypeOK
    <3>2. CASE call' = P!Call("opening", h, c) /\ UNCHANGED mine
      BY <2>1, <3>2 DEF Borrowed, P!Call, PoolInv, P!TypeOK
    <3> QED BY <1>13, <3>1, <3>2
  <2>6. Others'
    BY <1>13, <2>1 DEF PoolInv, Others, P!TypeOK
  <2> QED BY <1>13, <2>3, <2>4, <2>5, <2>6 DEF PoolInv
<1>14. ASSUME NEW h \in Hosts, NEW c \in Conns, P!Open(h, c) PROVE PoolInv'
  BY <1>13, <1>14 DEF P!Open
<1>15. ASSUME NEW h \in Hosts, NEW c \in Conns, P!ClientConnect(c, h) PROVE PoolInv'
  BY <1>13, <1>15 DEF P!ClientConnect
<1>16. ASSUME NEW c \in Conns, P!Opened(c) PROVE PoolInv'
  <2> DEFINE h == call.host
             conns == connections[h]
             kept == IF Len(conns) >= MaxIdle THEN Tail(conns) ELSE conns
  <2>1. /\ call.at = "opening" /\ call.conn = c /\ state[c] = "handshake"
        /\ h \in Hosts /\ to[c] = h /\ c \notin mine
    BY <1>16 DEF P!Opened, PoolInv, Borrowed, P!TypeOK
  <2>2. /\ conns \in Seq(Conns) /\ Len(conns) <= MaxIdle /\ IsInjective(conns)
        /\ \A d \in ToSet(conns) :
             /\ to[d] = h /\ state[d] \in P!Alive \cup {"dead"} /\ d \notin mine
    BY <2>1 DEF PoolInv, Lists, P!TypeOK
  <2>3. /\ kept \in Seq(Conns) /\ Len(kept) < MaxIdle /\ IsInjective(kept)
        /\ ToSet(kept) \subseteq ToSet(conns)
        /\ ~(Len(conns) >= MaxIdle /\ conns = <<>>)
    <3> HIDE DEF conns
    <3>1. CASE Len(conns) >= MaxIdle
      <4>1. conns # <<>> BY <1>0, <3>1, Empty
      <4>2. /\ Tail(conns) \in Seq(Conns) /\ Len(Tail(conns)) = Len(conns) - 1
            /\ ToSet(Tail(conns)) \subseteq ToSet(conns) /\ IsInjective(Tail(conns))
        BY <2>2, <4>1, Headed
      <4>3. Len(conns) \in Nat BY <2>2
      <4> QED BY <1>0, <2>2, <3>1, <4>1, <4>2, <4>3
    <3>2. CASE ~(Len(conns) >= MaxIdle)
      <4>3. Len(conns) \in Nat BY <2>2
      <4> QED BY <1>0, <2>2, <3>2, <4>3
    <3> QED BY <3>1, <3>2
  <2>4. /\ state' = [state EXCEPT ![c] = "new"]
        /\ connections' = [connections EXCEPT ![h] = Append(kept, c)]
        /\ call' = P!Call("given", h, c)
        /\ UNCHANGED <<panicked, to, mine>>
    BY <1>16, <2>3 DEF P!Opened
  <2>5. \A g \in Hosts : c \notin ToSet(connections[g])
    BY <2>1 DEF PoolInv, Lists
  <2> HIDE DEF kept
  <2>6. /\ Append(kept, c) \in Seq(Conns) /\ Len(Append(kept, c)) = Len(kept) + 1
        /\ ToSet(Append(kept, c)) = ToSet(kept) \cup {c}
        /\ IsInjective(Append(kept, c))
    BY <2>1, <2>3, <2>5, Appended
  <2>7. P!TypeOK'
    <3>1. connections' \in [Hosts -> Seq(Conns)]
      BY <2>1, <2>4, <2>6 DEF PoolInv, P!TypeOK
    <3>2. state' \in [Conns -> P!ConnStates]
      BY <2>4 DEF PoolInv, P!TypeOK
    <3>3. /\ call' \in [at : P!CallSteps, host : Hosts \cup {Nobody},
                        conn : Conns \cup {Nobody}]
          /\ call'.at # "free" => call'.conn \in Conns /\ call'.host \in Hosts
      BY <2>1, <2>4 DEF P!Call, P!CallSteps
    <3>4. panicked' \in BOOLEAN BY <2>4 DEF PoolInv, P!TypeOK
    <3> QED BY <2>4, <3>1, <3>2, <3>3, <3>4 DEF PoolInv, P!TypeOK
  <2>8. Lists'
    <3>1. ASSUME NEW g \in Hosts
          PROVE  /\ Len(connections'[g]) <= MaxIdle /\ IsInjective(connections'[g])
                 /\ ToSet(connections'[g]) \subseteq ToSet(connections[g]) \cup {c}
                 /\ g # h => c \notin ToSet(connections'[g])
      <4>1. CASE g = h
        <5>1. connections'[g] = Append(kept, c)
          BY <2>1, <2>4, <4>1 DEF PoolInv, P!TypeOK
        <5>2. Len(kept) + 1 <= MaxIdle
          BY <1>0, <2>3
        <5> QED BY <2>3, <2>6, <4>1, <5>1, <5>2
      <4>2. CASE g # h
        <5>1. connections'[g] = connections[g]
          BY <2>1, <2>4, <4>2 DEF PoolInv, P!TypeOK
        <5> QED BY <2>5, <5>1 DEF PoolInv, Lists
      <4> QED BY <4>1, <4>2
    <3>2. ASSUME NEW g \in Hosts, NEW d \in ToSet(connections[g])
          PROVE  to'[d] = g /\ state'[d] \in P!Alive \cup {"dead"} /\ d \notin mine'
      <4>1. d \in Conns /\ d # c
        BY <2>5, Members DEF PoolInv
      <4> QED BY <2>4, <4>1 DEF PoolInv, Lists, P!TypeOK
    <3>3. to'[c] = h /\ state'[c] = "new" /\ c \notin mine'
      BY <2>1, <2>4 DEF PoolInv, P!TypeOK
    <3> QED BY <3>1, <3>2, <3>3 DEF Lists
  <2>9. Borrowed'
    <3>1. call'.at = "given" /\ call'.conn = c /\ call'.host = h
      BY <2>4 DEF P!Call
    <3>2. connections'[h] = Append(kept, c)
      BY <2>1, <2>4 DEF PoolInv, P!TypeOK
    <3>3. c \in ToSet(connections'[h])
      BY <2>6, <3>2
    <3>4. to'[c] = h /\ state'[c] = "new"
      BY <2>1, <2>4 DEF PoolInv, P!TypeOK
    <3> QED BY <3>1, <3>3, <3>4 DEF Borrowed
  <2>10. Others'
    BY <2>4 DEF PoolInv, Others, P!TypeOK
  <2> QED BY <2>4, <2>7, <2>8, <2>9, <2>10 DEF PoolInv
<1>17. ASSUME NEW c \in Conns, P!GrpcCall(c) PROVE PoolInv'
  <2>1. P!ClientSend(c)
    BY <1>17 DEF P!GrpcCall, P!poll_ready, P!is_ready, P!ClientSend
  <2> QED BY <1>7, <2>1
<1>20. CASE UNCHANGED P!vars
  BY <1>20 DEF P!vars, PoolInv, P!TypeOK, Lists, Borrowed, Others
<1> QED
  BY <1>1, <1>2, <1>3, <1>4, <1>5, <1>6, <1>7, <1>8, <1>9, <1>10, <1>11,
     <1>12, <1>14, <1>15, <1>16, <1>17, <1>20 DEF P!Next

\* The invariant of the pool holds.
LEMMA PoolHolds == ASSUME P!Parameters PROVE P!Spec => []PoolInv
<1>1. P!Init => PoolInv BY PoolInit
<1>2. PoolInv /\ [P!Next]_P!vars => PoolInv' BY PoolStep
<1> QED BY <1>1, <1>2, PTL DEF P!Spec

\* However connections are opened, die, finish their exchanges or are reused,
\* the pool keeps at most MaxIdle of them per host, each once and under its own
\* host, and its eviction never meets an empty list (pool.rs:113-117).
THEOREM PoolIsSound == ASSUME P!Parameters PROVE P!Spec => []P!PoolSound
<1>1. /\ \A h \in Hosts : P!ToSet(connections[h]) = ToSet(connections[h])
      /\ \A h \in Hosts : IsInjective(connections[h]) => P!IsInjective(connections[h])
  BY DEF P!ToSet, ToSet, P!IsInjective, IsInjective
<1>2. PoolInv => P!PoolSound
  BY <1>1 DEF PoolInv, Lists, P!PoolSound
<1> QED BY <1>2, PoolHolds, PTL

\* connection() hands out a connection of the pool to the host asked for that
\* is in no exchange, although others change state while it opens one
\* (pool.rs:66-119).
THEOREM GivenConnectionIsUsable == ASSUME P!Parameters PROVE P!Spec => []P!GivenIsUsable
<1>1. PoolInv => P!GivenIsUsable
  BY DEF PoolInv, Borrowed, P!GivenIsUsable, P!ToSet, ToSet
<1> QED BY <1>1, PoolHolds, PTL
=============================================================================
