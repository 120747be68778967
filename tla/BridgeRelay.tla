----------------------------- MODULE BridgeRelay -----------------------------
(***************************************************************************)
(* One bridged TCP connection: an OS thread holds a BridgeTcpStream        *)
(* (dpdk-net-util/src/bridge/stream.rs), a relay_task on the lcore         *)
(* (worker.rs) owns the real TcpStream, and two bounded mpsc channels and  *)
(* a oneshot for closing join them.  The two threads run concurrently, and *)
(* the task's select! takes a random arm among the ready ones.             *)
(*                                                                         *)
(* A byte is its number in its direction of the stream.  smoltcp's socket, *)
(* the network and the peer are external: reliable and in order, as TCP is *)
(* to its user, but the peer may stop sending, close or reset at any time. *)
(***************************************************************************)
EXTENDS Naturals, Sequences

CONSTANTS
    ChannelSize,   \* DATA_CHANNEL_SIZE, capacity of each data channel
    SocketBuffer,  \* RX_BUF_SIZE and TX_BUF_SIZE, in bytes
    ReadSize,      \* longest buffer a caller passes to poll_read
    WriteSize,     \* longest buffer a caller passes to poll_write
    MaxIn,         \* bound: bytes the peer sends
    MaxOut         \* bound: bytes the OS thread writes

ASSUME SizeAssumption ==
    /\ {ChannelSize, SocketBuffer, ReadSize, WriteSize} \subseteq Nat \ {0}
    /\ {MaxIn, MaxOut} \subseteq Nat

VARIABLES
    wrote,     \* bytes poll_write has answered Ok for
    toLcore,   \* data_tx -> rx_from_os: chunks on their way to the lcore
    toOs,      \* tx_to_os -> data_rx: chunks, an EOF mark or an error
    readBuf,   \* BridgeTcpStream.read_buf
    osRead,    \* bytes poll_read has returned
    osSaw,     \* the first end of stream the reader met
    owed,      \* history: what wrote was when poll_close was first called
    closeTx,   \* the close oneshot: "held" by the stream or "sent"
    alive,     \* the BridgeTcpStream has not been dropped
    relay,     \* where relay_task is: its loop, an await, or its end
    held,      \* the chunk relay_task is in the middle of sending
    sock,      \* TCP state of relay_task's socket
    finSeen,   \* smoltcp's rx_fin_received
    rxBuf,     \* bytes received and not yet taken by recv
    txBuf,     \* bytes taken by send and not yet acknowledged
    peerSent,  \* bytes the peer has sent
    peerGot    \* bytes the peer has received

os      == <<wrote, readBuf, osRead, osSaw, owed, closeTx, alive>>
socket  == <<sock, finSeen, rxBuf, txBuf>>
peer    == <<peerSent, peerGot>>
vars    == <<os, toLcore, toOs, relay, held, socket, peer>>

-----------------------------------------------------------------------------
\* Items of the lcore -> OS channel: Result<Bytes, BridgeError>.  An empty
\* chunk is the mark for EOF.
Chunk(bytes) == [ok |-> TRUE, bytes |-> bytes]
Eof          == Chunk(<<>>)
Error        == [ok |-> FALSE, bytes |-> <<>>]

\* The task has returned, or was dropped with its lcore's LocalSet.
Gone == relay \in {"done", "stopped"}

\* Bytes lo+1 .. hi of a stream.
Bytes(lo, hi) == [i \in 1..(hi - lo) |-> lo + i]

Take(s, n) == SubSeq(s, 1, n)
Skip(s, n) == SubSeq(s, n + 1, Len(s))

Least(a, b) == IF a < b THEN a ELSE b

Init ==
    /\ wrote = 0 /\ readBuf = <<>> /\ osRead = <<>> /\ osSaw = "open"
    /\ owed = 0 /\ closeTx = "held" /\ alive = TRUE
    /\ toLcore = <<>> /\ toOs = <<>>
    /\ relay = "select" /\ held = Eof
    /\ sock = "Established" /\ finSeen = FALSE /\ rxBuf = <<>> /\ txBuf = <<>>
    /\ peerSent = 0 /\ peerGot = <<>>

-----------------------------------------------------------------------------
(* smoltcp's socket and the peer (external) *)

MayReceive == sock \in {"Established", "FinWait1", "FinWait2"} \/ rxBuf # <<>>
MaySend    == sock \in {"Established", "CloseWait"}

PeerSend ==
    /\ sock \in {"Established", "FinWait1", "FinWait2"} /\ ~finSeen
    /\ peerSent < MaxIn /\ Len(rxBuf) < SocketBuffer
    /\ peerSent' = peerSent + 1
    /\ rxBuf' = Append(rxBuf, peerSent')
    /\ UNCHANGED <<os, toLcore, toOs, relay, held, sock, finSeen, txBuf, peerGot>>

PeerReceive ==
    /\ sock # "Closed" /\ txBuf # <<>>
    /\ peerGot' = Append(peerGot, Head(txBuf))
    /\ txBuf' = Tail(txBuf)
    /\ UNCHANGED <<os, toLcore, toOs, relay, held, sock, finSeen, rxBuf, peerSent>>

PeerFin ==
    /\ ~finSeen
    /\ \/ sock = "Established" /\ sock' = "CloseWait"
       \/ sock = "FinWait1"    /\ sock' = "Closing"
       \/ sock = "FinWait2"    /\ sock' = "TimeWait"
    /\ finSeen' = TRUE
    /\ UNCHANGED <<os, toLcore, toOs, relay, held, rxBuf, txBuf, peer>>

\* Our FIN follows the last byte of the send buffer.
PeerAcksFin ==
    /\ txBuf = <<>>
    /\ \/ sock = "FinWait1" /\ sock' = "FinWait2"
       \/ sock = "Closing"  /\ sock' = "TimeWait"
       \/ sock = "LastAck"  /\ sock' = "Closed"
    /\ UNCHANGED <<os, toLcore, toOs, relay, held, finSeen, rxBuf, txBuf, peer>>

PeerReset ==
    /\ sock \notin {"Closed", "TimeWait"}
    /\ sock' = "Closed" /\ txBuf' = <<>>
    /\ UNCHANGED <<os, toLcore, toOs, relay, held, finSeen, rxBuf, peer>>

-----------------------------------------------------------------------------
(* relay_task: one action per arm of the select! and per await in an arm *)

\* Leaving the loop drops the task's arguments: the queued chunks of
\* rx_from_os go, and TcpStream::drop aborts a socket that is still active.
Exit(how) ==
    /\ relay' = how /\ held' = Eof /\ toLcore' = <<>>
    /\ sock' = IF sock \in {"Closed", "TimeWait", "FinWait1", "FinWait2",
                            "Closing", "LastAck"}
               THEN sock ELSE "Closed"
    /\ txBuf' = IF sock' = sock THEN txBuf ELSE <<>>

Hold(item, where) == held' = item /\ relay' = where

\* Mutant of Received: an error is passed on as the end of the stream.
MutantErrorAsEof == IF rxBuf # <<>> THEN Chunk(rxBuf) ELSE Eof

\* stream.recv: data, end of stream, or an error; Pending is not enabled.
Received ==
    IF rxBuf # <<>> THEN Chunk(rxBuf) ELSE IF finSeen THEN Eof ELSE Error

RecvArm ==
    /\ relay = "select"
    /\ rxBuf # <<>> \/ ~MayReceive
    /\ Hold(Received, "toOs") /\ rxBuf' = <<>>
    /\ UNCHANGED <<os, toLcore, toOs, sock, finSeen, txBuf, peer>>

\* The loop goes on after a chunk of data and ends after EOF or an error.
LoopGoesOn(item) == item.ok /\ item.bytes # <<>>

\* tx_to_os.send(..).await: waits for room, fails when the OS side is gone.
SendToOs ==
    /\ relay = "toOs"
    /\ alive => Len(toOs) < ChannelSize
    /\ toOs' = IF alive THEN Append(toOs, held) ELSE toOs
    /\ IF alive /\ LoopGoesOn(held)
       THEN Hold(Eof, "select") /\ UNCHANGED <<toLcore, sock, txBuf>>
       ELSE Exit("done")
    /\ UNCHANGED <<os, finSeen, rxBuf, peer>>

\* rx_from_os.recv(): a chunk, or None once the OS side is gone and the
\* channel is drained.
DataArm ==
    /\ relay = "select"
    /\ \/ /\ toLcore # <<>>
          /\ Hold(Chunk(Head(toLcore)), "toTcp") /\ toLcore' = Tail(toLcore)
          /\ UNCHANGED <<sock, txBuf>>
       \/ toLcore = <<>> /\ ~alive /\ Exit("done")
    /\ UNCHANGED <<os, toOs, finSeen, rxBuf, peer>>

\* How many bytes of a chunk socket.send_slice takes.
SendSlice(bytes) == Least(Len(bytes), SocketBuffer - Len(txBuf))

\* Mutant of StillToSend: one turn of the write-all loop only.
MutantRestForgotten(bytes, n) == <<>>

\* What is left of a chunk after send_slice took n bytes: data[offset..].
StillToSend(bytes, n) == Skip(bytes, n)

\* stream.send(&bytes).await writes all of the chunk, in as many turns as
\* the send buffer needs.
SendToTcp ==
    /\ relay = "toTcp"
    /\ \/ /\ held.bytes # <<>> /\ ~MaySend
          /\ Hold(Error, "toOs") /\ UNCHANGED txBuf
       \/ /\ held.bytes = <<>> \/ MaySend
          /\ LET n    == SendSlice(held.bytes)
                 left == StillToSend(held.bytes, n)
             IN  /\ n > 0 \/ held.bytes = <<>>
                 /\ txBuf' = txBuf \o Take(held.bytes, n)
                 /\ Hold(Chunk(left), IF left = <<>> THEN "select" ELSE "toTcp")
    /\ UNCHANGED <<os, toLcore, toOs, sock, finSeen, rxBuf, peer>>

\* Mutant of Shutdown: waits for the end without ever asking for it.
MutantNoFin == sock

\* &mut close_rx resolves when the stream sent () and when it was dropped;
\* stream.close() then starts the shutdown at its first poll.
Shutdown ==
    CASE sock = "Established" -> "FinWait1"
      [] sock = "CloseWait"   -> "LastAck"
      [] OTHER                -> sock

CloseArm ==
    /\ relay = "select" /\ (closeTx = "sent" \/ ~alive)
    /\ sock' = Shutdown
    /\ Hold(Eof, "closing")
    /\ UNCHANGED <<os, toLcore, toOs, finSeen, rxBuf, txBuf, peer>>

CloseDone ==
    /\ relay = "closing" /\ sock \in {"Closed", "TimeWait"}
    /\ Exit("done")
    /\ UNCHANGED <<os, toOs, finSeen, rxBuf, peer>>

\* The lcore ends: its LocalSet drops the task wherever it is.
LcoreStops ==
    /\ ~Gone /\ Exit("stopped")
    /\ UNCHANGED <<os, toOs, finSeen, rxBuf, peer>>

Relay == RecvArm \/ SendToOs \/ DataArm \/ SendToTcp \/ CloseArm \/ CloseDone

-----------------------------------------------------------------------------
(* The OS thread's BridgeTcpStream *)

\* poll_write queues all of buf as one chunk, or is pending, or fails once
\* the relay task has gone.
PollWrite ==
    /\ alive /\ ~Gone /\ Len(toLcore) < ChannelSize
    /\ \E n \in 0..Least(WriteSize, MaxOut - wrote) :
          /\ toLcore' = Append(toLcore, Bytes(wrote, wrote + n))
          /\ wrote' = wrote + n
    /\ UNCHANGED <<readBuf, osRead, osSaw, owed, closeTx, alive, toOs, relay, held, socket, peer>>

Ended(how) == osSaw' = IF osSaw = "open" THEN how ELSE osSaw

\* Mutant of HandOver: the rest of a chunk is not kept for the next read.
MutantLeftoverLost(chunk, n) ==
    LET k == Least(n, Len(chunk))
    IN  osRead' = osRead \o Take(chunk, k) /\ readBuf' = <<>>

\* Hands the caller at most n bytes of chunk and keeps the rest.
HandOver(chunk, n) ==
    LET k == Least(n, Len(chunk))
    IN  osRead' = osRead \o Take(chunk, k) /\ readBuf' = Skip(chunk, k)

\* poll_read into a buffer of n bytes: leftover first, then the channel; a
\* channel whose sender is gone reads as EOF.
PollRead(n) ==
    /\ alive
    /\ \/ readBuf # <<>> /\ HandOver(readBuf, n) /\ UNCHANGED <<toOs, osSaw>>
       \/ /\ readBuf = <<>> /\ toOs # <<>>
          /\ toOs' = Tail(toOs)
          /\ IF LoopGoesOn(Head(toOs))
             THEN HandOver(Head(toOs).bytes, n) /\ UNCHANGED osSaw
             ELSE /\ Ended(IF Head(toOs).ok THEN "eof" ELSE "error")
                  /\ UNCHANGED <<osRead, readBuf>>
       \/ /\ readBuf = <<>> /\ toOs = <<>> /\ Gone
          /\ Ended("eof") /\ UNCHANGED <<osRead, readBuf, toOs>>
    /\ UNCHANGED <<wrote, owed, closeTx, alive, toLcore, relay, held, socket, peer>>

Read == \E n \in 0..ReadSize : PollRead(n)

\* poll_close only fires the oneshot; poll_flush does nothing.
PollClose ==
    /\ alive /\ closeTx = "held" /\ closeTx' = "sent" /\ owed' = wrote
    /\ UNCHANGED <<wrote, readBuf, osRead, osSaw, alive, toLcore, toOs, relay, held, socket, peer>>

\* Dropping the stream drops data_tx, data_rx with its items, and close_tx.
DropStream ==
    /\ alive /\ alive' = FALSE
    /\ toOs' = <<>> /\ readBuf' = <<>>
    /\ UNCHANGED <<wrote, osRead, osSaw, owed, closeTx, toLcore, relay, held, socket, peer>>

OsThread == PollWrite \/ Read \/ PollClose \/ DropStream

-----------------------------------------------------------------------------
Peer == PeerSend \/ PeerReceive \/ PeerFin \/ PeerAcksFin \/ PeerReset

Next == Relay \/ LcoreStops \/ OsThread \/ Peer

Spec == Init /\ [][Next]_vars

\* The lcore polls its tasks forever, and select! starts at a random arm, so
\* an arm that is ready again and again is taken.  The reader of the OS
\* thread keeps reading, the peer keeps reading and answers our FIN.
FairSpec ==
    /\ Spec
    /\ SF_vars(RecvArm) /\ SF_vars(DataArm) /\ SF_vars(CloseArm)
    /\ WF_vars(SendToOs) /\ WF_vars(SendToTcp) /\ WF_vars(CloseDone)
    /\ WF_vars(PollRead(ReadSize))
    /\ WF_vars(PeerReceive) /\ WF_vars(PeerAcksFin)
    /\ WF_vars(PeerFin /\ sock # "Established")

-----------------------------------------------------------------------------
(* Properties *)

Ingress == INSTANCE BytePipe WITH sent <- peerSent, got <- osRead
Egress  == INSTANCE BytePipe WITH sent <- wrote, got <- peerGot

\* The OS thread reads the peer's bytes in order, each once, whatever way the
\* chunks are cut into reads, kept in read_buf, queued or dropped
\* (relay_task's recv arm and poll_read); and the peer receives the OS thread's
\* bytes in order, each once, whatever way the chunks are cut into the send
\* buffer (poll_write and relay_task's data arm with TcpStream::send).
BothWaysArePipes == Ingress!Spec /\ Egress!Spec

\* A reader that neither closed nor lost its lcore and meets the end of the
\* stream before any error has read all the peer sent, and the peer did close:
\* a reset or a failed send is never presented as EOF (poll_read's "channel
\* closed = EOF", relay_task's order of sends and breaks).
EofMeansAll ==
    osSaw = "eof" /\ closeTx = "held" /\ relay # "stopped"
        => finSeen /\ osRead = Bytes(0, peerSent)

\* Nothing written is stuck: on a connection nobody ends, every byte poll_write
\* accepted reaches the peer although the one task serves both directions and
\* blocks in either (relay_task's sends inside select! arms).
WrittenReachesPeer ==
    \A n \in 1..MaxOut :
        (wrote >= n) ~> (Len(peerGot) >= n \/ Gone \/ finSeen
                         \/ closeTx = "sent" \/ ~alive \/ sock = "Closed")

\* Dropping the stream ends the relay task wherever it is blocked (the None,
\* is_err and close_rx exits of relay_task).
DropEndsRelay == ~alive ~> Gone

\* "Data written here is forwarded to the DPDK TcpStream on an lcore": a task
\* that ended because the stream was closed with poll_close, on a connection
\* nobody reset or closed from the other side first, has sent all that
\* poll_write accepted before (stream.rs:12, stream.rs:106).
CloseForwardsWritten ==
    relay = "done" /\ closeTx = "sent" /\ alive /\ sock = "TimeWait"
        => Len(peerGot) >= owed
=============================================================================
