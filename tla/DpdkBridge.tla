----------------------------- MODULE DpdkBridge -----------------------------
(***************************************************************************)
(* How OS threads reach the lcores: the WorkerRegistry, wait_ready and the *)
(* calls of DpdkBridge (dpdk-net-util/src/bridge/handle.rs), and the       *)
(* bridge_worker that serves them on each lcore (worker.rs).               *)
(*                                                                         *)
(* A call is one task of an OS thread: it may first wait_ready, then it    *)
(* makes one connect, listen or bind_udp.  What becomes of a listener is   *)
(* in BridgeListener; connections and sockets are the subject of           *)
(* BridgeRelay and UdpRelay.                                               *)
(***************************************************************************)
EXTENDS BridgeListener, FiniteSets, SequencesExt

CONSTANTS
    Workers,      \* lcores that spawn a bridge worker
    Calls,        \* tasks of OS threads
    NoCall,       \* not a call
    Asks,         \* what the calls may ask for, together
    CmdSize,      \* CMD_CHANNEL_SIZE
    Ports,        \* ephemeral ports are 0..Ports-1 (49152..65535)
    WorkersStop   \* whether an lcore may end while the bridge is in use

ASSUME BridgeAssumption ==
    /\ Workers # {} /\ CmdSize \in Nat \ {0} /\ Ports \in Nat \ {0}
    /\ WorkersStop \in BOOLEAN /\ NoCall \notin Calls
    /\ Asks \subseteq [Calls -> {"connect", "listen", "bind_udp"}]

VARIABLES
    registry,   \* WorkerRegistry.workers, in order of registration
    next,       \* WorkerRegistry.next
    worker,     \* where each lcore is in spawn and bridge_worker
    serving,    \* the call whose handshake a worker awaits
    cmds,       \* the command channel of each worker
    nextPort,   \* EphemeralPorts.next of each worker
    pc,         \* where each call is
    kind,       \* what it asks for
    snapshot,   \* the registry as it loaded it
    target,     \* the worker it selected
    reply,      \* its oneshot: empty, answered, or dropped unanswered
    picked      \* history: the snapshots that calls selected from, by ticket

workers == <<registry, worker, serving, cmds, nextPort>>
calls   == <<pc, kind, snapshot, target>>
vars    == <<workers, calls, next, reply, picked, listener>>

Init ==
    /\ registry = <<>> /\ next = 0
    /\ worker = [w \in Workers |-> "off"]
    /\ serving = [w \in Workers |-> NoCall]
    /\ cmds = [w \in Workers |-> <<>>]
    /\ nextPort = [w \in Workers |-> 0]
    /\ pc = [c \in Calls |-> "start"]
    /\ kind \in Asks
    /\ snapshot = [c \in Calls |-> <<>>]
    /\ target = [c \in Calls |-> CHOOSE w \in Workers : TRUE]
    /\ reply = [c \in Calls |-> "empty"]
    /\ picked = <<>>
    /\ listener = [c \in Calls |-> NoListener]

-----------------------------------------------------------------------------
(* The lcore: BridgeWorkers::spawn, then bridge_worker *)

\* The rcu that appends the worker's channel to the registry.
Register(w) ==
    /\ worker[w] = "off" /\ worker' = [worker EXCEPT ![w] = "registered"]
    /\ registry' = Append(registry, w)
    /\ UNCHANGED <<serving, cmds, nextPort, calls, next, reply, picked, listener>>

\* notify_waiters wakes the tasks that wait, and leaves no permit behind.
NotifyWaiters(w) ==
    /\ worker[w] = "registered" /\ worker' = [worker EXCEPT ![w] = "idle"]
    /\ pc' = [c \in Calls |-> IF pc[c] = "notified" THEN "check" ELSE pc[c]]
    /\ UNCHANGED <<registry, serving, cmds, nextPort, kind, snapshot, target,
                   next, reply, picked, listener>>

\* Mutant of Answer: a path that keeps reply_tx and never uses it.
MutantAnswerForgotten(c, r) == UNCHANGED reply

\* reply_tx.send: a caller that has gone does not stop the worker.
Answer(c, r) == reply' = [reply EXCEPT ![c] = r]

\* Mutant of Allocate: the range wraps one port too late.
MutantWrapsLate(w) == nextPort' = [nextPort EXCEPT ![w] = (nextPort[w] + 1) % (Ports + 1)]

\* EphemeralPorts::allocate moves on by one port and wraps around.
Allocate(w) == nextPort' = [nextPort EXCEPT ![w] = (nextPort[w] + 1) % Ports]

\* A Connect command: a port is allocated, then TcpStream::connect starts the
\* handshake or is refused.
ServeConnect(w) ==
    /\ worker[w] = "idle" /\ cmds[w] # <<>> /\ kind[Head(cmds[w])] = "connect"
    /\ cmds' = [cmds EXCEPT ![w] = Tail(@)]
    /\ Allocate(w)
    /\ \/ /\ Answer(Head(cmds[w]), "error")
          /\ UNCHANGED <<worker, serving>>
       \/ /\ worker' = [worker EXCEPT ![w] = "connecting"]
          /\ serving' = [serving EXCEPT ![w] = Head(cmds[w])]
          /\ UNCHANGED reply
    /\ UNCHANGED <<registry, calls, next, picked, listener>>

\* stream.wait_connected().await returns; the worker serves nobody meanwhile.
HandshakeEnds(w) ==
    /\ worker[w] = "connecting"
    /\ worker' = [worker EXCEPT ![w] = "idle"]
    /\ serving' = [serving EXCEPT ![w] = NoCall]
    /\ \E r \in {"ok", "error"} : Answer(serving[w], r)
    /\ UNCHANGED <<registry, cmds, nextPort, calls, next, picked, listener>>

\* A Listen command: bind, reply, spawn the accept loop.
ServeListen(w) ==
    LET c == Head(cmds[w]) IN
    /\ worker[w] = "idle" /\ cmds[w] # <<>> /\ kind[c] = "listen"
    /\ cmds' = [cmds EXCEPT ![w] = Tail(@)]
    /\ \/ Answer(c, "ok") /\ StartListening(c, pc[c] = "waiting")
       \/ Answer(c, "error") /\ UNCHANGED listener
    /\ UNCHANGED <<registry, worker, serving, nextPort, calls, next, picked>>

\* A BindUdp command: bind, reply, spawn the relay.
ServeBindUdp(w) ==
    /\ worker[w] = "idle" /\ cmds[w] # <<>> /\ kind[Head(cmds[w])] = "bind_udp"
    /\ cmds' = [cmds EXCEPT ![w] = Tail(@)]
    /\ \E r \in {"ok", "error"} : Answer(Head(cmds[w]), r)
    /\ UNCHANGED <<registry, worker, serving, nextPort, calls, next, picked, listener>>

\* accept_loop, on the lcore the listener was bound on.
AcceptLoop(c) ==
    /\ LcoreAccepts(c) \/ SendAccepted(c)
    /\ UNCHANGED <<workers, calls, next, reply, picked>>

\* The OS thread with its listener.
UseListener(c) ==
    /\ pc[c] = "answered" /\ (accept(c) \/ poll_next(c) \/ DropListener(c))
    /\ UNCHANGED <<workers, calls, next, reply, picked>>

\* The lcore's LocalSet drops bridge_worker: the channel closes, its commands
\* and their reply_tx go.  The registry keeps the sender: nothing removes it.
WorkerStops(w) ==
    /\ WorkersStop /\ worker[w] \in {"idle", "connecting"}
    /\ worker' = [worker EXCEPT ![w] = "stopped"]
    /\ serving' = [serving EXCEPT ![w] = NoCall]
    /\ cmds' = [cmds EXCEPT ![w] = <<>>]
    /\ reply' = [c \in Calls |->
                    IF c \in ToSet(cmds[w]) \cup {serving[w]} THEN "dropped" ELSE reply[c]]
    /\ listener' = [c \in Calls |->
                       IF target[c] = w THEN LoopDropped(listener[c]) ELSE listener[c]]
    /\ UNCHANGED <<registry, nextPort, calls, next, picked>>

Lcore(w) ==
    \/ Register(w) \/ NotifyWaiters(w) \/ ServeConnect(w)
    \/ HandshakeEnds(w) \/ ServeListen(w) \/ ServeBindUdp(w) \/ WorkerStops(w)

-----------------------------------------------------------------------------
(* A call on an OS thread *)

Goto(c, place) == pc' = [pc EXCEPT ![c] = place]

\* wait_ready is optional; connect, listen and bind_udp do without it.
Start(c) ==
    /\ pc[c] = "start" /\ (Goto(c, "check") \/ Goto(c, "select"))
    /\ UNCHANGED <<workers, kind, snapshot, target, next, reply, picked, listener>>

\* wait_ready: the registry is looked at ...
CheckReady(c) ==
    /\ pc[c] = "check"
    /\ Goto(c, IF registry # <<>> THEN "select" ELSE "empty")
    /\ UNCHANGED <<workers, kind, snapshot, target, next, reply, picked, listener>>

\* ... and only then does notified() start to count notifications.
StartWaiting(c) ==
    /\ pc[c] = "empty" /\ Goto(c, "notified")
    /\ UNCHANGED <<workers, kind, snapshot, target, next, reply, picked, listener>>

\* select: loads the registry ...
Load(c) ==
    /\ pc[c] = "select"
    /\ snapshot' = [snapshot EXCEPT ![c] = registry]
    /\ Goto(c, IF registry = <<>> THEN "disconnected" ELSE "loaded")
    /\ UNCHANGED <<workers, kind, target, next, reply, picked, listener>>

\* Mutant of RoundRobin: divides where it should take the remainder.
MutantDivides(list, t) == list[((t \div Len(list)) % Len(list)) + 1]

\* The worker that ticket t selects from list.
RoundRobin(list, t) == list[(t % Len(list)) + 1]

\* ... then takes a ticket.
Pick(c) ==
    /\ pc[c] = "loaded" /\ Goto(c, "sending")
    /\ target' = [target EXCEPT ![c] = RoundRobin(snapshot[c], next)]
    /\ next' = next + 1
    /\ picked' = Append(picked, [list |-> snapshot[c], worker |-> target'[c]])
    /\ UNCHANGED <<workers, kind, snapshot, reply, listener>>

\* worker.send(..).await: waits for room, fails once the worker has gone.
SendCommand(c) ==
    /\ pc[c] = "sending"
    /\ \/ /\ worker[target[c]] = "stopped" /\ Goto(c, "disconnected")
          /\ UNCHANGED cmds
       \/ /\ worker[target[c]] # "stopped" /\ Len(cmds[target[c]]) < CmdSize
          /\ cmds' = [cmds EXCEPT ![target[c]] = Append(@, c)]
          /\ Goto(c, "waiting")
    /\ UNCHANGED <<registry, worker, serving, nextPort, kind, snapshot, target,
                   next, reply, picked, listener>>

\* reply_rx.await
TakeReply(c) ==
    /\ pc[c] = "waiting" /\ reply[c] # "empty"
    /\ Goto(c, IF reply[c] = "dropped" THEN "disconnected" ELSE "answered")
    /\ UNCHANGED <<workers, kind, snapshot, target, next, reply, picked, listener>>

\* The OS thread drops the future of its call; the command stays queued, and a
\* listener that waits in the oneshot goes with it.
Cancel(c) ==
    /\ pc[c] \in {"check", "empty", "notified", "sending", "waiting"}
    /\ Goto(c, "cancelled")
    /\ listener' = [listener EXCEPT ![c] = IF @.os = "open" THEN Dropped(@) ELSE @]
    /\ UNCHANGED <<workers, kind, snapshot, target, next, reply, picked>>

Call(c) ==
    \/ Start(c) \/ CheckReady(c) \/ StartWaiting(c) \/ Load(c) \/ Pick(c)
    \/ SendCommand(c) \/ TakeReply(c)

-----------------------------------------------------------------------------
Next ==
    \/ \E w \in Workers : Lcore(w)
    \/ \E c \in Calls : Call(c) \/ Cancel(c) \/ AcceptLoop(c) \/ UseListener(c)

Spec == Init /\ [][Next]_vars

\* Every lcore starts and polls its tasks, every OS thread polls its own, a
\* handshake ends, and tokio grants a full channel's room first come first
\* served.
FairSpec ==
    /\ Spec
    /\ \A w \in Workers :
          /\ WF_vars(Register(w)) /\ WF_vars(NotifyWaiters(w))
          /\ WF_vars(ServeConnect(w)) /\ WF_vars(HandshakeEnds(w))
          /\ WF_vars(ServeListen(w)) /\ WF_vars(ServeBindUdp(w))
    /\ \A c \in Calls :
          /\ WF_vars(CheckReady(c)) /\ WF_vars(StartWaiting(c))
          /\ WF_vars(Load(c)) /\ WF_vars(Pick(c))
          /\ SF_vars(SendCommand(c)) /\ WF_vars(TakeReply(c))

-----------------------------------------------------------------------------
(* Properties *)

Finished == {"answered", "disconnected", "cancelled"}

\* Type invariant: every variable holds a value of its kind and no command
\* channel holds more than its capacity (worker.rs:85).
TypeOK ==
    /\ registry \in Seq(Workers) /\ next \in Nat
    /\ worker \in [Workers -> {"off", "registered", "idle", "connecting", "stopped"}]
    /\ serving \in [Workers -> Calls \cup {NoCall}]
    /\ cmds \in [Workers -> Seq(Calls)]
    /\ \A w \in Workers : Len(cmds[w]) <= CmdSize
    /\ nextPort \in [Workers -> 0..Ports-1]
    /\ pc \in [Calls -> Finished \cup {"start", "check", "empty", "notified",
                                       "select", "loaded", "sending", "waiting"}]
    /\ kind \in [Calls -> {"connect", "listen", "bind_udp"}]
    /\ snapshot \in [Calls -> Seq(Workers)]
    /\ target \in [Calls -> Workers]
    /\ reply \in [Calls -> {"empty", "ok", "error", "dropped"}]
    /\ picked \in Seq([list : Seq(Workers), worker : Workers])

\* A call that waits for its answer can still get one: its command is queued or
\* being served by the worker it was sent to, or its oneshot is resolved, also
\* when the lcore ended with the command queued (handle.rs:49-58 against
\* bridge_worker and its being dropped).
NoLostCommand ==
    \A c \in Calls :
        pc[c] = "waiting" =>
            \/ reply[c] # "empty"
            \/ c \in ToSet(cmds[target[c]])
            \/ serving[target[c]] = c

\* "Round-robin queue selection: Simple, even distribution"
\* (docs/Design/OsThreadBridge.md:223): as long as all calls selected from the
\* same list of workers, no worker was given two calls more than another,
\* although loading the list and taking a ticket are two steps (worker.rs:58-66).
EvenDistribution ==
    \A list \in {picked[i].list : i \in DOMAIN picked} :
        (\A i \in DOMAIN picked : picked[i].list = list) =>
            LET load(w) == Cardinality({i \in DOMAIN picked : picked[i].worker = w})
            IN  \A v, w \in ToSet(list) : load(v) <= load(w) + 1

\* Every call that reached its worker's channel, or waits to, ends: it is
\* answered or learns that the worker is gone, as long as handshakes end
\* (bridge_worker serves one command at a time and awaits the handshake inline).
CallsReturn == \A c \in Calls : (pc[c] = "sending") ~> (pc[c] \in Finished)
=============================================================================
