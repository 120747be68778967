------------------------------ MODULE UdpRelay ------------------------------
(***************************************************************************)
(* One bridged UDP port: tasks of OS threads share a BridgeUdpSocket       *)
(* (dpdk-net-util/src/bridge/udp.rs), udp_relay_task on the lcore          *)
(* (worker.rs) owns the real UdpSocket (dpdk-net/src/socket/udp.rs), and   *)
(* two bounded channels join them.  quinn is one of the users              *)
(* (dpdk-net-quinn/src/socket.rs).                                         *)
(*                                                                         *)
(* A datagram is its number in its direction.  tokio's mutexes are fair    *)
(* queues: the first task of a lock's queue holds it, and try_lock fails   *)
(* while the queue is not empty.  A call that only returns WouldBlock,     *)
(* Pending or NotConnected without a trace is not a step.                  *)
(***************************************************************************)
EXTENDS RxState, FiniteSets

CONSTANTS
    Tasks,      \* tasks of OS threads that share the socket
    Cap,        \* UDP_CHANNEL_SIZE
    TxPackets,  \* UDP_TX_PACKETS
    RxPackets,  \* UDP_RX_PACKETS
    MaxOut,     \* bound: datagrams the tasks send
    MaxIn       \* bound: datagrams the network delivers

\* A slot of the channel may be kept by a poll nobody repeats: see PollPending.
ASSUME UdpAssumption ==
    /\ Cap \in Nat \ {0, 1} /\ {TxPackets, RxPackets} \subseteq Nat \ {0}
    /\ {MaxOut, MaxIn} \subseteq Nat

VARIABLES
    lock,       \* the queue of each of the socket's three mutexes
    pc,         \* the call each task is in
    connected,  \* peer_addr is Some
    acquiring,  \* the PollSender waits for, or was given, a slot of the channel
    open,       \* some task still has the BridgeUdpSocket
    toLcore,    \* tx -> rx_from_os
    relay,      \* where udp_relay_task is
    held,       \* the datagram it is sending, a sequence of at most one
    txBuf,      \* smoltcp's transmit buffer
    rxBuf,      \* smoltcp's receive buffer
    accepted,   \* datagrams the channel has taken from the tasks
    wire,       \* the last datagram the NIC has sent
    arrived     \* datagrams that came from the network

calls  == <<lock, pc, connected>>
socket == <<txBuf, rxBuf, wire, arrived>>
reader == <<peeked, told, receiver, read>>
writer == <<acquiring, toLcore, accepted>>
vars   == <<calls, reader, writer, open, relay, held, socket>>

Locks == {"tx", "rx", "peer_addr"}

\* UdpSocket::bind has succeeded and the relay has been spawned.
Init ==
    /\ lock = [l \in Locks |-> <<>>] /\ pc = [t \in Tasks |-> "idle"]
    /\ connected = FALSE /\ acquiring = FALSE
    /\ peeked = <<>> /\ told = FALSE /\ open = TRUE
    /\ toLcore = <<>> /\ receiver = <<>>
    /\ relay = "select" /\ held = <<>> /\ txBuf = <<>> /\ rxBuf = <<>>
    /\ accepted = 0 /\ wire = 0 /\ arrived = 0 /\ read = 0

Closed == relay = "done"

Holds(t, l) == lock[l] # <<>> /\ Head(lock[l]) = t
Waits(t, l) == \E i \in DOMAIN lock[l] : lock[l][i] = t

\* lock().await takes its place in the queue.
Enqueue(t, l) == lock' = [lock EXCEPT ![l] = Append(@, t)]

\* A queue without the place that task t has in it, if it has one.
Without(q, t) ==
    IF \E i \in DOMAIN q : q[i] = t
    THEN LET i == CHOOSE i \in DOMAIN q : q[i] = t
         IN  SubSeq(q, 1, i - 1) \o SubSeq(q, i + 1, Len(q))
    ELSE q

\* The guards are dropped, or a place in a queue is given up.
Leave(t) ==
    /\ lock' = [l \in Locks |-> Without(lock[l], t)]
    /\ pc' = [pc EXCEPT ![t] = "idle"]

-----------------------------------------------------------------------------
(* Sending, on the OS side *)

\* The bound on datagrams counts those that calls have yet to send.
Sending == {t \in Tasks : pc[t] \in {"send_to", "send"}}
MaySend == accepted + Cardinality(Sending) < MaxOut

Begin(t, call, l) ==
    /\ open /\ pc[t] = "idle" /\ pc' = [pc EXCEPT ![t] = call]
    /\ Enqueue(t, l)
    /\ UNCHANGED <<connected, reader, writer, open, relay, held, socket>>

BeginSendTo(t)   == MaySend /\ Begin(t, "send_to", "tx")
BeginSend(t)     == MaySend /\ Begin(t, "send", "peer_addr")
BeginConnect(t)  == Begin(t, "connect", "peer_addr")
BeginRecvFrom(t) == Begin(t, "recv_from", "rx")

FinishConnect(t) ==
    /\ pc[t] = "connect" /\ Holds(t, "peer_addr")
    /\ connected' = TRUE /\ Leave(t)
    /\ UNCHANGED <<reader, writer, open, relay, held, socket>>

\* send() goes on to send_to() and keeps the guard of peer_addr all the while.
SendReadsPeer(t) ==
    /\ pc[t] = "send" /\ Holds(t, "peer_addr") /\ ~Waits(t, "tx")
    /\ IF connected THEN Enqueue(t, "tx") /\ UNCHANGED pc ELSE Leave(t)
    /\ UNCHANGED <<connected, reader, writer, open, relay, held, socket>>

\* The channel takes the datagram; a channel whose reader is gone does not.
ChannelTakes ==
    /\ accepted' = accepted + 1
    /\ toLcore' = Append(toLcore, accepted + 1)

\* Slots that are neither used nor set aside for the PollSender.
FreeSlots == Cap - Len(toLcore) - (IF acquiring THEN 1 ELSE 0)

\* Sender::send waits for a slot while the task holds the lock.
FinishSendTo(t) ==
    /\ pc[t] \in {"send_to", "send"} /\ Holds(t, "tx") /\ Leave(t)
    /\ \/ Closed /\ UNCHANGED writer
       \/ ~Closed /\ FreeSlots > 0 /\ ChannelTakes /\ UNCHANGED acquiring
    /\ UNCHANGED <<connected, reader, open, relay, held, socket>>

TrySendTo ==
    /\ open /\ lock["tx"] = <<>> /\ ~Closed /\ FreeSlots > 0 /\ MaySend
    /\ ChannelTakes
    /\ UNCHANGED <<calls, acquiring, reader, open, relay, held, socket>>

\* poll_reserve on an open channel, then send_item (poll_send_to, poll_send) or
\* abort_send (poll_send_ready).
PollReserved(sends) ==
    /\ open /\ lock["tx"] = <<>> /\ ~Closed /\ Len(toLcore) < Cap
    /\ acquiring' = FALSE
    /\ IF sends THEN MaySend /\ ChannelTakes ELSE acquiring /\ UNCHANGED <<toLcore, accepted>>
    /\ UNCHANGED <<calls, reader, open, relay, held, socket>>

PollSendTo    == PollReserved(TRUE)
PollSendReady == PollReserved(FALSE)

\* A full channel: the PollSender stays in the channel's queue after the call
\* has returned Pending, whether or not anybody polls again.
PollPending ==
    /\ open /\ lock["tx"] = <<>> /\ ~Closed /\ Len(toLcore) = Cap /\ ~acquiring
    /\ acquiring' = TRUE
    /\ UNCHANGED <<calls, toLcore, accepted, reader, open, relay, held, socket>>

-----------------------------------------------------------------------------
(* Receiving, on the OS side *)

\* recv().await holds the lock until a datagram comes or the relay is gone.
FinishRecvFrom(t) ==
    /\ pc[t] = "recv_from" /\ Holds(t, "rx") /\ Leave(t)
    /\ \/ TakeDatagram
       \/ peeked \o receiver = <<>> /\ Closed /\ UNCHANGED reader
    /\ UNCHANGED <<connected, writer, open, relay, held, socket>>

\* try_recv_from and poll_recv_from.
TryRecvFrom ==
    /\ open /\ lock["rx"] = <<>> /\ TakeDatagram
    /\ UNCHANGED <<calls, writer, open, relay, held, socket>>

PollRecvReady ==
    /\ open /\ lock["rx"] = <<>> /\ peeked \o receiver # <<>> /\ told' = TRUE
    /\ IF peeked # <<>> THEN UNCHANGED <<peeked, receiver>> ELSE Stash
    /\ UNCHANGED <<calls, read, writer, open, relay, held, socket>>

\* quinn's endpoint uses the socket through these three: one datagram a call,
\* and every connection has a poller over the same PollSender.
try_send      == TrySendTo
poll_recv     == TryRecvFrom
poll_writable == PollSendReady \/ PollPending

\* The future of a call is dropped at an await.
Cancel(t) ==
    /\ pc[t] # "idle" /\ Leave(t)
    /\ UNCHANGED <<connected, reader, writer, open, relay, held, socket>>

\* The last Arc of the socket goes: no task is in a call.
DropSocket ==
    /\ open /\ \A t \in Tasks : pc[t] = "idle"
    /\ open' = FALSE /\ acquiring' = FALSE
    /\ receiver' = <<>> /\ peeked' = <<>> /\ told' = FALSE
    /\ UNCHANGED <<calls, toLcore, accepted, read, relay, held, socket>>

-----------------------------------------------------------------------------
(* The lcore *)

\* rx_from_os.recv() yields a datagram; send_to is then awaited.
RelayTakes ==
    /\ relay = "select" /\ toLcore # <<>>
    /\ relay' = "send_to" /\ held' = <<Head(toLcore)>> /\ toLcore' = Tail(toLcore)
    /\ UNCHANGED <<calls, reader, acquiring, accepted, open, socket>>

\* UdpSendFuture: Ok, or lost (Unaddressable, which is ignored, or too long for
\* smoltcp to send later on).  BufferFull waits.
RelaySends ==
    /\ relay = "send_to" /\ relay' = "select" /\ held' = <<>>
    /\ \/ Len(txBuf) < TxPackets /\ txBuf' = txBuf \o held
       \/ UNCHANGED txBuf
    /\ UNCHANGED <<calls, reader, writer, open, rxBuf, wire, arrived>>

\* Mutant of Forward: the task awaits the channel (the arm is not taken while
\* there is no room, nor is any other).
MutantAwaitsOs ==
    IF Len(receiver) < Cap
    THEN receiver' = Append(receiver, Head(rxBuf)) /\ UNCHANGED relay
    ELSE relay' = "blocked" /\ UNCHANGED receiver

\* tx_to_os.try_send: dropped when the channel is full or its reader gone.
Forward ==
    /\ receiver' = IF open /\ Len(receiver) < Cap THEN Append(receiver, Head(rxBuf)) ELSE receiver
    /\ UNCHANGED relay

\* recv_from yields a datagram.
RelayReceives ==
    /\ relay = "select" /\ rxBuf # <<>> /\ rxBuf' = Tail(rxBuf) /\ Forward
    /\ UNCHANGED <<calls, peeked, told, read, writer, open, held, txBuf, wire, arrived>>

\* The task ends: the channels close and UdpSocket's drop removes the socket.
\* What is in the receiver can still be read.
Exit ==
    /\ relay' = "done" /\ held' = <<>> /\ toLcore' = <<>>
    /\ txBuf' = <<>> /\ rxBuf' = <<>>
    /\ UNCHANGED <<calls, reader, acquiring, accepted, open, wire, arrived>>

\* Mutant of OsSideGone: None is taken for a transient condition.
MutantGoesOn == FALSE /\ Exit

\* rx_from_os.recv() yields None: every sender gone and nothing left.
OsSideGone == relay = "select" /\ ~open /\ toLcore = <<>> /\ Exit

\* The lcore's LocalSet ends with the task in it, or the task panics over an
\* IPv6 address (to_smoltcp_endpoint).
LcoreEnds == relay # "done" /\ Exit

-----------------------------------------------------------------------------
(* smoltcp and the network *)

\* A datagram leaves the transmit buffer for the NIC.
NicSends ==
    /\ txBuf # <<>> /\ txBuf' = Tail(txBuf) /\ wire' = Head(txBuf)
    /\ UNCHANGED <<calls, reader, writer, open, relay, held, rxBuf, arrived>>

\* A datagram arrives; a full receive buffer drops it.
Arrives ==
    /\ ~Closed /\ arrived < MaxIn /\ arrived' = arrived + 1
    /\ rxBuf' = IF Len(rxBuf) < RxPackets THEN Append(rxBuf, arrived + 1) ELSE rxBuf
    /\ UNCHANGED <<calls, reader, writer, open, relay, held, txBuf, wire>>

-----------------------------------------------------------------------------

Call(t) ==
    \/ BeginSendTo(t) \/ BeginSend(t) \/ BeginConnect(t) \/ BeginRecvFrom(t)
    \/ FinishConnect(t) \/ SendReadsPeer(t) \/ FinishSendTo(t) \/ FinishRecvFrom(t)
    \/ Cancel(t)

Next ==
    \/ \E t \in Tasks : Call(t)
    \/ try_send \/ poll_writable \/ poll_recv
    \/ PollSendTo \/ PollRecvReady \/ DropSocket
    \/ RelayTakes \/ RelaySends \/ RelayReceives \/ OsSideGone \/ LcoreEnds
    \/ NicSends \/ Arrives

Spec == Init /\ [][Next]_vars

\* The executors poll the tasks they have woken; select! starts at a random
\* arm, so none that is ready again and again is passed over for ever; the
\* reactor empties the transmit buffer.  Nobody has to read.
FairSpec ==
    /\ Spec
    /\ SF_vars(RelayTakes) /\ SF_vars(RelayReceives) /\ SF_vars(OsSideGone)
    /\ WF_vars(RelaySends /\ txBuf' # txBuf) /\ WF_vars(NicSends)
    /\ \A t \in Tasks :
        WF_vars(FinishConnect(t)) /\ WF_vars(SendReadsPeer(t)) /\ WF_vars(FinishSendTo(t))

-----------------------------------------------------------------------------
(* Properties *)

Ingress == INSTANCE DatagramPipe WITH sent <- arrived, got <- read
Egress  == INSTANCE DatagramPipe WITH sent <- accepted, got <- wire

\* Tasks read datagrams in order of arrival, each at most once, whatever mixture
\* of recv_from, try_recv_from, poll_recv_from and poll_recv_ready they use
\* (RxState.peeked is drained before the channel); and datagrams leave in the
\* order the channel took them, each at most once, also when the send buffer is
\* full (udp_relay_task awaits it, UdpSendFuture).
BothWaysArePipes == Ingress!Spec /\ Egress!Spec

\* A send_to or send that waits for a lock or a slot ends, although nobody has
\* to read, and other tasks give up, poll or wait as well (try_send of the
\* relay's ingress arm; the guards held across awaits).
SendReturns == \A t \in Tasks : (t \in Sending) ~> (t \notin Sending)

\* Dropping the socket ends the relay, and with it frees the port
\* (OsThreadBridge.md:200; the None exit of udp_relay_task).
DropEndsRelay == ~open ~> Closed
=============================================================================
