--------------------------- MODULE BridgeListener ---------------------------
(***************************************************************************)
(* The TCP listener an OS thread gets from the bridge: accept_loop on the  *)
(* lcore (dpdk-net-util/src/bridge/worker.rs), the channel of accepted     *)
(* connections and BridgeTcpListener::accept (listener.rs), which tonic    *)
(* uses through BridgeIncoming (dpdk-net-tonic/src/tonic/bridge).          *)
(*                                                                         *)
(* listener[c] is the listener of call c.  What accept() of the lcore      *)
(* returns is numbered in order; each result is a connection or an error.  *)
(***************************************************************************)
EXTENDS Naturals, Sequences

CONSTANTS
    AcceptSize,   \* ACCEPT_CHANNEL_SIZE
    MaxAccepts    \* bound: results of one listener's accept()

ASSUME ListenerAssumption == AcceptSize \in Nat \ {0} /\ MaxAccepts \in Nat

VARIABLE listener

\* loop: accept_loop; n: results so far; holds: the one it is sending; chan:
\* the channel; os: who has the receiver; got: what accept() gave the OS
\* thread; relays: connections whose relay_task was spawned.
NoListener ==
    [loop |-> "none", n |-> 0, holds |-> <<>>, chan |-> <<>>, os |-> "none",
     got |-> <<>>, relays |-> {}]

\* bind has succeeded: the receiver goes into the reply, which nobody may be
\* waiting for any more, and the loop is spawned in any case.
StartListening(c, wanted) ==
    listener' = [listener EXCEPT ![c] =
        [NoListener EXCEPT !.loop = "accepting",
                           !.os = IF wanted THEN "open" ELSE "dropped"]]

\* listener.accept().await returns a stream or an error.
LcoreAccepts(c) ==
    /\ listener[c].loop = "accepting" /\ listener[c].n < MaxAccepts
    /\ \E r \in {"ok", "error"} :
          listener' = [listener EXCEPT ![c].loop = "sending", ![c].n = @ + 1,
                          ![c].holds = <<<<r, listener[c].n + 1>>>>]

\* Mutant of SendAccepted: try_send, which gives up on a full channel.
MutantTrySend(c) ==
    LET l == listener[c]
        room == l.os = "open" /\ Len(l.chan) < AcceptSize
    IN  /\ l.loop = "sending"
        /\ listener' = [listener EXCEPT ![c] =
               [l EXCEPT !.loop = "accepting", !.holds = <<>>,
                         !.chan = IF room THEN l.chan \o l.holds ELSE l.chan]]

\* accept_tx.send(..).await: waits for room.  Once the receiver has gone a
\* connection ends the loop, and is dropped; an error does not.
SendAccepted(c) ==
    LET l == listener[c]
        r == l.holds[1]
    IN  /\ l.loop = "sending"
        /\ \/ /\ l.os = "open" /\ Len(l.chan) < AcceptSize
              /\ listener' = [listener EXCEPT ![c] =
                     [l EXCEPT !.loop = "accepting", !.holds = <<>>,
                               !.chan = Append(l.chan, r),
                               !.relays =
                                   IF r[1] = "ok" THEN @ \cup {r[2]} ELSE @]]
           \/ /\ l.os # "open"
              /\ listener' = [listener EXCEPT ![c] =
                     [l EXCEPT !.loop =
                                   IF r[1] = "ok" THEN "ended" ELSE "accepting",
                               !.holds = <<>>]]

\* accept_rx gives the next result, or ends when the loop has gone and the
\* channel is empty.
Recv(c, end) ==
    LET l == listener[c] IN
    /\ l.os = "open"
    /\ \/ /\ l.chan # <<>>
          /\ listener' = [listener EXCEPT ![c].chan = Tail(@),
                                          ![c].got = Append(@, Head(l.chan))]
       \/ /\ l.chan = <<>> /\ l.loop = "ended"
          /\ listener' = [listener EXCEPT ![c].os = end]

\* BridgeTcpListener::accept ends with an error, BridgeIncoming::poll_next, of
\* tonic's server, with the end of the stream.
accept(c) == Recv(c, "disconnected")
poll_next(c) == Recv(c, "finished")

\* The OS thread drops its listener, with the streams that wait in the channel.
Dropped(l) == [l EXCEPT !.os = "dropped", !.chan = <<>>]

DropListener(c) ==
    /\ listener[c].os = "open"
    /\ listener' = [listener EXCEPT ![c] = Dropped(@)]

\* The LocalSet goes and drops the loop, with the connection it holds.
LoopDropped(l) ==
    IF l.loop = "none" THEN l ELSE [l EXCEPT !.loop = "ended", !.holds = <<>>]

\* While the OS thread keeps its listener, what it has got, what waits in the
\* channel and what the loop is sending are the results of accept(), each once
\* and in order, however slow it is and however small the channel; only the
\* end of the lcore can cost it one, the last.  It is told of the end when
\* there is nothing left, and every stream it gets has a relay task
\* (worker.rs:226-252, listener.rs:16-21).
ListenerDelivers ==
    \A c \in DOMAIN listener :
        LET l == listener[c]
            all == l.got \o l.chan \o l.holds
        IN  /\ l.os = "open" =>
                  /\ Len(all) = l.n \/ (l.loop = "ended" /\ Len(all) + 1 = l.n)
                  /\ \A k \in DOMAIN all : all[k][2] = k
            /\ l.os \in {"disconnected", "finished"} =>
                  l.loop = "ended" /\ l.chan = <<>>
            /\ \A k \in DOMAIN l.got :
                  l.got[k][1] = "ok" => l.got[k][2] \in l.relays
=============================================================================
