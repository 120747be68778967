------------------------------ MODULE RxState -------------------------------
(***************************************************************************)
(* The receiving half of a BridgeUdpSocket (RxState in                     *)
(* dpdk-net-util/src/bridge/udp.rs): the channel from the lcore and the    *)
(* one-slot buffer in which poll_recv_ready keeps the datagram that proved *)
(* readiness.  UdpRelay's tasks share it behind the mutex rx.              *)
(***************************************************************************)
EXTENDS Naturals, Sequences

VARIABLES
    receiver,   \* tx_to_os -> RxState.receiver: datagrams by number
    peeked,     \* RxState.peeked, a sequence of at most one datagram
    told,       \* history: poll_recv_ready said Ready and nobody has read since
    read        \* the last datagram a task has read

\* Mutant of TakeDatagram: the channel is read before the peek buffer.
MutantPeekedLast ==
    /\ peeked \o receiver # <<>> /\ told' = FALSE
    /\ IF receiver # <<>>
       THEN read' = Head(receiver) /\ receiver' = Tail(receiver) /\ UNCHANGED peeked
       ELSE read' = Head(peeked) /\ peeked' = <<>> /\ UNCHANGED receiver

\* The peeked datagram comes first, then the channel.
TakeDatagram ==
    /\ peeked \o receiver # <<>> /\ told' = FALSE
    /\ read' = Head(peeked \o receiver)
    /\ IF peeked # <<>> THEN peeked' = <<>> /\ UNCHANGED receiver
                        ELSE receiver' = Tail(receiver) /\ UNCHANGED peeked

\* Mutant of Stash: the datagram that proved readiness is not kept.
MutantNotStashed == peeked' = <<>> /\ receiver' = Tail(receiver)

\* rx.peeked = Some(dg).
Stash == peeked' = <<Head(receiver)>> /\ receiver' = Tail(receiver)

\* After poll_recv_ready said Ready, and until somebody reads, a datagram can be
\* read without waiting, whatever the relay and the lcore do meanwhile.
ReadyMeansReadable == told => peeked # <<>>
=============================================================================
