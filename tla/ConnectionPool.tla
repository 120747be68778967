--------------------------- MODULE ConnectionPool ---------------------------
(***************************************************************************)
(* The HTTP client of dpdk-net-util: Connection (connection.rs), opened by *)
(* DpdkHttpClient (client.rs), by the free functions of connect.rs or by   *)
(* ConnectionPool (pool.rs), which keeps up to MaxIdle of them per host.   *)
(*                                                                         *)
(* A pool operation borrows the pool (&mut self) until it returns, across  *)
(* its awaits; the connections' driver tasks, spawned on the same thread,  *)
(* run at those awaits and between operations.  What hyper does with a     *)
(* connection is external.  DpdkGrpcChannel of dpdk-net-tonic is one such  *)
(* connection with tower's protocol: poll_ready, then call.                *)
(***************************************************************************)
EXTENDS Integers, Sequences, SequencesExt

CONSTANTS
  Hosts,    \* (IpAddress, port) keys
  Conns,    \* connections that may ever be opened
  Nobody,   \* no host and no connection
  MaxIdle,      \* max_idle_per_host
  Version   \* http_version of the configuration: "Http1" or "Http2"

\* What the proofs assume: a pool that may keep a connection at all.
Parameters ==
  /\ MaxIdle \in Nat \ {0}
  /\ Version \in {"Http1", "Http2"}
  /\ Nobody \notin Hosts \cup Conns

VARIABLES
  connections,  \* the Vec<Connection> of each key, <<>> for no entry
  conn,         \* the state of each connection
  to,           \* the host each connection was opened to
  mine,         \* connections a client opened: their caller owns them
  call,         \* what borrows the pool
  panicked

vars == <<connections, conn, to, mine, call, panicked>>

\* "new": the handshake is done and the driver has not been polled yet.
ConnStates == {"unused", "tcp", "handshake", "new", "idle", "busy", "dead"}
Alive == {"new", "idle", "busy"}

\* "given": connection() has returned a connection not used since;
\* "awaiting": request() waits for the head of a response.
CallSteps == {"free", "opening", "given", "used", "awaiting"}

Free == [at |-> "free", host |-> Nobody, conn |-> Nobody]
Call(step, h, c) == [at |-> step, host |-> h, conn |-> c]

Init ==
  /\ connections = [h \in Hosts |-> <<>>]
  /\ conn = [c \in Conns |-> "unused"]
  /\ to = [c \in Conns |-> Nobody]
  /\ mine = {}
  /\ call = Free
  /\ panicked = FALSE

-----------------------------------------------------------------------------
(* hyper                                                                   *)

\* An HTTP/1 sender is ready when its driver asked for a request, an HTTP/2
\* sender while its connection lives.
is_ready(c) ==
  IF Version = "Http1" THEN conn[c] = "idle" ELSE conn[c] \in Alive

\* A sender that is not ready takes one request that waits for the driver.
Accepts(c) == is_ready(c) \/ conn[c] = "new"

\* The state of a connection that has taken a request: HTTP/2 multiplexes.
Taken == IF Version = "Http1" THEN "busy" ELSE "idle"

\* The driver's first poll.
DriverStarts(c) ==
  /\ conn[c] = "new" /\ conn' = [conn EXCEPT ![c] = "idle"]
  /\ UNCHANGED <<connections, to, call, panicked, mine>>

\* The exchange is over: the body of the response is read to its end.
ExchangeDone(c) ==
  /\ conn[c] = "busy" /\ ~(call.at = "awaiting" /\ call.conn = c)
  /\ conn' = [conn EXCEPT ![c] = "idle"]
  /\ UNCHANGED <<connections, to, call, panicked, mine>>

\* The peer closes or the driver fails; a request waiting for it gets an error.
Dies(c) ==
  /\ conn[c] \in Alive
  /\ conn' = [conn EXCEPT ![c] = "dead"]
  /\ call' = IF call.at = "awaiting" /\ call.conn = c THEN Free ELSE call
  /\ UNCHANGED <<connections, to, panicked, mine>>

-----------------------------------------------------------------------------
(* Connection, DpdkHttpClient, http1_connect and http2_connect             *)

\* connect_tcp, up to the await of wait_connected.
connect_tcp(c, h) ==
  /\ conn[c] = "unused"
  /\ conn' = [conn EXCEPT ![c] = "tcp"]
  /\ to' = [to EXCEPT ![c] = h]

\* wait_connected has succeeded: http1 or http2 goes on to its handshake.
TcpConnected(c) ==
  /\ conn[c] = "tcp" /\ conn' = [conn EXCEPT ![c] = "handshake"]
  /\ UNCHANGED <<connections, to, call, panicked, mine>>

\* Error::Connect, ConnectionFailed or Handshake, or the caller drops the
\* future: nothing is kept and the pool is free again.
OpenFails(c) ==
  /\ conn[c] \in {"tcp", "handshake"}
  /\ conn' = [conn EXCEPT ![c] = "dead"]
  /\ call' = IF call.at = "opening" /\ call.conn = c THEN Free ELSE call
  /\ UNCHANGED <<connections, to, panicked, mine>>

\* The client's connect and request and the free functions open a connection
\* of their caller's own, however many at a time.
ClientConnect(c, h) ==
  /\ connect_tcp(c, h) /\ mine' = mine \cup {c}
  /\ UNCHANGED <<connections, call, panicked>>

\* http1 and http2 return it to the client: the driver is spawned.
ClientConnected(c) ==
  /\ conn[c] = "handshake" /\ c \in mine
  /\ conn' = [conn EXCEPT ![c] = "new"]
  /\ UNCHANGED <<connections, to, call, panicked, mine>>

\* Connection::send_request: dispatched eagerly, or an error at once.
send_request(c) ==
  conn' = IF Accepts(c) THEN [conn EXCEPT ![c] = Taken] ELSE conn

\* The caller of connect sends on its connection.
ClientSend(c) ==
  /\ conn[c] \in Alive /\ c \in mine
  /\ send_request(c)
  /\ UNCHANGED <<connections, to, call, panicked, mine>>

\* DpdkGrpcChannel, an HTTP/2 connection of its own: poll_ready never waits,
\* it is ready or an error, and call sends.
poll_ready(c) == c \in mine /\ Version = "Http2" /\ is_ready(c)

GrpcCall(c) ==
  /\ poll_ready(c) /\ send_request(c)
  /\ UNCHANGED <<connections, to, call, panicked, mine>>

-----------------------------------------------------------------------------
(* ConnectionPool                                                          *)

HasReady(h) == \E i \in DOMAIN connections[h] : is_ready(connections[h][i])

\* connection() finds a connection to reuse: the first that is ready.
Reuse(h) ==
  /\ call = Free
  /\ \E i \in DOMAIN connections[h] :
       /\ is_ready(connections[h][i])
       /\ \A j \in 1..(i - 1) : ~is_ready(connections[h][j])
       /\ call' = Call("given", h, connections[h][i])
  /\ UNCHANGED <<connections, conn, to, panicked, mine>>

\* connection() opens one, and holds the pool while it does.
Open(h, c) ==
  /\ call = Free /\ ~HasReady(h)
  /\ connect_tcp(c, h)
  /\ call' = Call("opening", h, c)
  /\ UNCHANGED <<connections, panicked, mine>>

\* A full list loses its first connection, idle or not; removing from an
\* empty one panics, which only MaxIdle = 0 could bring about.
Opened(c) ==
  LET h == call.host
      conns == connections[h]
      full == Len(conns) >= MaxIdle
  IN /\ call.at = "opening" /\ call.conn = c /\ conn[c] = "handshake"
     /\ conn' = [conn EXCEPT ![c] = "new"]
     /\ IF full /\ conns = <<>>
        THEN panicked' = TRUE /\ call' = Free /\ UNCHANGED connections
        ELSE /\ connections' = [connections EXCEPT ![h] =
                  Append(IF full THEN Tail(conns) ELSE conns, c)]
             /\ call' = Call("given", h, c)
             /\ UNCHANGED panicked
     /\ UNCHANGED <<to, mine>>

\* The caller of connection() sends on what it was given, as often as it likes.
Send(c) ==
  /\ call.at \in {"given", "used"} /\ call.conn = c
  /\ send_request(c)
  /\ call' = [call EXCEPT !.at = "used"]
  /\ UNCHANGED <<connections, to, panicked, mine>>

\* request(): connection(), send_request and the await of its response, which
\* keeps the pool borrowed; an error returns at once.
request(c) ==
  /\ call.at = "given" /\ call.conn = c
  /\ send_request(c)
  /\ call' = IF Accepts(c) THEN [call EXCEPT !.at = "awaiting"] ELSE Free
  /\ UNCHANGED <<connections, to, panicked, mine>>

\* The head of the response has come, or the caller gives the connection back.
Return ==
  /\ call.at \in {"given", "used", "awaiting"} /\ call' = Free
  /\ UNCHANGED <<connections, conn, to, panicked, mine>>

clear ==
  /\ call = Free
  /\ connections' = [h \in Hosts |-> <<>>]
  /\ UNCHANGED <<conn, to, call, panicked, mine>>

-----------------------------------------------------------------------------

Next ==
  \/ clear \/ Return
  \/ \E h \in Hosts : Reuse(h)
  \/ \E h \in Hosts, c \in Conns : Open(h, c) \/ ClientConnect(c, h)
  \/ \E c \in Conns :
       \/ DriverStarts(c) \/ ExchangeDone(c) \/ Dies(c)
       \/ TcpConnected(c) \/ OpenFails(c) \/ Opened(c)
       \/ ClientConnected(c) \/ ClientSend(c) \/ GrpcCall(c)
       \/ Send(c) \/ request(c)

Spec == Init /\ [][Next]_vars

-----------------------------------------------------------------------------

TypeOK ==
  /\ connections \in [Hosts -> Seq(Conns)]
  /\ conn \in [Conns -> ConnStates]
  /\ to \in [Conns -> Hosts \cup {Nobody}]
  /\ mine \subseteq Conns
  /\ call \in [at : CallSteps, host : Hosts \cup {Nobody},
               conn : Conns \cup {Nobody}]
  /\ call.at # "free" => call.conn \in Conns /\ call.host \in Hosts
  /\ panicked \in BOOLEAN

\* A pool that may keep a connection keeps at most MaxIdle to each host, each of
\* them once and under the host it was opened to, and removing the oldest
\* never meets an empty list (pool.rs:113-117).
PoolSound ==
  /\ ~panicked
  /\ \A h \in Hosts :
       /\ Len(connections[h]) <= MaxIdle
       /\ IsInjective(connections[h])
       /\ \A c \in ToSet(connections[h]) : to[c] = h

\* What connection() gives to its caller is in the pool, under the host asked
\* for, and is not in the middle of an exchange: of the connections whose
\* state changes while one is being opened, an HTTP/1 one that is busy is
\* never handed out (pool.rs:72-83).
GivenIsUsable ==
  call.at = "given" =>
    /\ call.conn \in ToSet(connections[call.host])
    /\ to[call.conn] = call.host
    /\ conn[call.conn] \in {"new", "idle", "dead"}
=============================================================================
