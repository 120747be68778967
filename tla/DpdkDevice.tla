----------------------------- MODULE DpdkDevice -----------------------------
(***************************************************************************)
(* One queue's DpdkDevice: the smoltcp phy::Device over a DPDK RX/TX queue *)
(* pair, and the ownership of the mbufs that pass through it.              *)
(*                                                                         *)
(* An mbuf is taken from the shared mempool by the NIC (a received frame), *)
(* by an injected frame, or by a TX token; it travels through rx_batch or  *)
(* tx_batch; and it goes back when the Mbuf is dropped (Drop frees it) or, *)
(* after rte_eth_tx_burst took it (mem::forget), when the NIC is done.     *)
(* The NIC, the other queues and this lcore use the pool concurrently.     *)
(***************************************************************************)
EXTENDS Naturals, Sequences, FiniteSets, SequencesExt

CONSTANTS
    Mbufs,        \* the mbufs of the mempool
    None,         \* no mbuf
    RxCap,        \* capacity of rx_batch (64)
    TxCap,        \* capacity of tx_batch (256)
    BurstSize,    \* MAX_BURST_SIZE of one rx or tx burst (64)
    RxRingSize,   \* RX descriptors of the NIC
    TxRingSize,   \* TX descriptors of the NIC
    MaxInject,    \* most ARP entries injected by one receive()
    MaxFrames     \* bound: frames emitted

ASSUME NoneAssumption == None \notin Mbufs
ASSUME SizesAssumption ==
    /\ RxCap \in Nat /\ TxCap \in Nat /\ BurstSize \in Nat
    /\ RxRingSize \in Nat /\ TxRingSize \in Nat
    /\ MaxInject \in Nat /\ MaxFrames \in Nat

VARIABLES
    pool,       \* free mbufs of the mempool
    others,     \* mbufs held by the other queues of the port
    rx_ring,    \* frames the NIC has received for this queue
    rx_batch,   \* DpdkDevice::rx_batch
    rx_token,   \* mbuf of the DpdkRxToken smoltcp is processing, or None
    tx_batch,   \* DpdkDevice::tx_batch
    tx_ring,    \* frames handed to the NIC
    status,     \* "running", "panicked" or "dropped"
    frame,      \* history: number of the emitted frame an mbuf last carried
    tx_no       \* history: frames emitted so far

rings == <<rx_ring, tx_ring>>
numbers == <<frame, tx_no>>
vars == <<pool, others, rings, rx_batch, rx_token, tx_batch, status, numbers>>

Init ==
    /\ pool = Mbufs
    /\ others = {}
    /\ rx_ring = <<>>
    /\ rx_batch = <<>>
    /\ rx_token = None
    /\ tx_batch = <<>>
    /\ tx_ring = <<>>
    /\ status = "running"
    /\ frame = [m \in Mbufs |-> 0]
    /\ tx_no = 0

-----------------------------------------------------------------------------
(* The NIC and the other users of the pool (external).                     *)

\* A frame arrives in an mbuf the driver took from the pool.
NicReceive(m) ==
    /\ m \in pool
    /\ Len(rx_ring) < RxRingSize
    /\ pool' = pool \ {m}
    /\ rx_ring' = Append(rx_ring, m)
    /\ UNCHANGED <<others, rx_batch, rx_token, tx_batch, tx_ring, status, numbers>>

\* A frame has left; the driver frees its mbuf.
NicTransmit ==
    /\ tx_ring # <<>>
    /\ pool' = pool \cup {Head(tx_ring)}
    /\ tx_ring' = Tail(tx_ring)
    /\ UNCHANGED <<others, rx_ring, rx_batch, rx_token, tx_batch, status, numbers>>

OthersAlloc(m) ==
    /\ m \in pool
    /\ pool' = pool \ {m}
    /\ others' = others \cup {m}
    /\ UNCHANGED <<rings, rx_batch, rx_token, tx_batch, status, numbers>>

OthersFree(m) ==
    /\ m \in others
    /\ others' = others \ {m}
    /\ pool' = pool \cup {m}
    /\ UNCHANGED <<rings, rx_batch, rx_token, tx_batch, status, numbers>>

-----------------------------------------------------------------------------
(* DpdkDevice                                                              *)

Least(a, b) == IF a <= b THEN a ELSE b

MutantAllTaken == Least(Len(tx_batch), BurstSize)

\* TxQueue::tx: how many mbufs one burst moves from tx_batch to the ring.
TxSent == Least(Least(Len(tx_batch), BurstSize), TxRingSize - Len(tx_ring))

MutantSentKeptInBatch(n) ==
    /\ tx_ring' = tx_ring \o SubSeq(tx_batch, 1, n)
    /\ tx_batch' = tx_batch

MutantSentFromTheBack(n) ==
    /\ tx_ring' = tx_ring \o SubSeq(tx_batch, Len(tx_batch) - n + 1, Len(tx_batch))
    /\ tx_batch' = SubSeq(tx_batch, 1, Len(tx_batch) - n)

\* The n mbufs sent are removed from the front and forgotten: the NIC owns
\* them.  The others stay in tx_batch.
Sent(n) ==
    /\ tx_ring' = tx_ring \o SubSeq(tx_batch, 1, n)
    /\ tx_batch' = SubSeq(tx_batch, n + 1, Len(tx_batch))

MutantNoFlush == UNCHANGED <<tx_ring, tx_batch>>

\* flush_tx: a single burst, no spinning when the ring is full.
FlushTx == Sent(TxSent)

\* RxQueue::rx into an empty rx_batch: how many frames one burst brings.
RxTaken ==
    IF rx_batch = <<>> THEN Least(Least(RxCap, BurstSize), Len(rx_ring)) ELSE 0

\* Sequences of distinct free mbufs that hold n injected frames.
Injections(n) == {s \in [1 .. n -> pool] : IsInjective(s)}

\* receive(): poll_rx (flush, then refill an empty batch), injection of up to
\* MaxInject ARP entries, pop of the newest frame.  The TX token given with
\* it costs nothing: no space in tx_batch is checked or reserved.
Receive ==
    /\ status = "running"
    /\ rx_token = None
    /\ FlushTx
    /\ rx_ring' = SubSeq(rx_ring, RxTaken + 1, Len(rx_ring))
    /\ LET polled == rx_batch \o SubSeq(rx_ring, 1, RxTaken)
       IN \E n \in 0 .. Least(MaxInject, RxCap - Len(polled)) :
          \E injected \in Injections(n) :
            LET batch == polled \o injected
            IN  /\ pool' = pool \ ToSet(injected)
                /\ \/ /\ batch = <<>>
                      /\ UNCHANGED <<rx_batch, rx_token>>
                   \/ /\ batch # <<>>
                      /\ rx_token' = Last(batch)
                      /\ rx_batch' = Front(batch)
    /\ UNCHANGED <<others, status, numbers>>

MutantRxMbufNotFreed(free) == pool' = free

\* DpdkRxToken::consume has returned: the mbuf is dropped, hence freed.
\* free is the pool as smoltcp's processing left it.
DropRxToken(free) == pool' = free \cup {rx_token}

\* smoltcp processes the frame and has nothing to answer.
ConsumeSilently ==
    /\ rx_token # None
    /\ status = "running"
    /\ DropRxToken(pool)
    /\ rx_token' = None
    /\ UNCHANGED <<others, rings, rx_batch, tx_batch, status, numbers>>

\* smoltcp answers through the TX token of the same receive() while it still
\* holds the frame.  DpdkTxTokenWithPool::consume takes an mbuf and pushes it;
\* with a full tx_batch the expect() panics (and unwinding frees the mbuf).
ConsumeAnswering(m) ==
    /\ rx_token # None
    /\ status = "running"
    /\ m \in pool
    /\ rx_token' = None
    /\ \/ /\ Len(tx_batch) < TxCap
          /\ tx_no < MaxFrames
          /\ DropRxToken(pool \ {m})
          /\ tx_batch' = Append(tx_batch, m)
          /\ tx_no' = tx_no + 1
          /\ frame' = [frame EXCEPT ![m] = tx_no + 1]
          /\ UNCHANGED status
       \/ /\ Len(tx_batch) >= TxCap
          /\ DropRxToken(pool)
          /\ status' = "panicked"
          /\ UNCHANGED <<tx_batch, tx_no, frame>>
    /\ UNCHANGED <<others, rings, rx_batch>>

\* ... or finds no mbuf: the answer is lost, TCP will retransmit.
ConsumeAnswerLost ==
    /\ rx_token # None
    /\ status = "running"
    /\ pool = {}
    /\ DropRxToken(pool)
    /\ rx_token' = None
    /\ UNCHANGED <<others, rings, rx_batch, tx_batch, status, numbers>>

\* What transmit() flushes: one burst, and only when tx_batch is full.
Flushed == IF Len(tx_batch) < TxCap THEN 0 ELSE TxSent

\* poll_egress emits one frame: transmit() flushes when tx_batch is full and
\* gives a token only if there is space; the token's consume uses it at once.
Transmit(m) ==
    /\ status = "running"
    /\ rx_token = None
    /\ m \in pool
    /\ tx_no < MaxFrames
    /\ Len(tx_batch) - Flushed < TxCap
    /\ tx_ring' = tx_ring \o SubSeq(tx_batch, 1, Flushed)
    /\ tx_batch' = Append(SubSeq(tx_batch, Flushed + 1, Len(tx_batch)), m)
    /\ pool' = pool \ {m}
    /\ tx_no' = tx_no + 1
    /\ frame' = [frame EXCEPT ![m] = tx_no + 1]
    /\ UNCHANGED <<others, rx_ring, rx_batch, rx_token, status>>

\* No token, or no mbuf for it: smoltcp's frame is not queued.
TransmitNothing ==
    /\ status = "running"
    /\ rx_token = None
    /\ Len(tx_batch) - Flushed >= TxCap \/ pool = {}
    /\ Sent(Flushed)
    /\ UNCHANGED <<pool, others, rx_ring, rx_batch, rx_token, status, numbers>>

\* inject_rx_packet, called by an application outside the reactor's poll.
InjectRxPacket(m) ==
    /\ status = "running"
    /\ rx_token = None
    /\ m \in pool
    /\ Len(rx_batch) < RxCap
    /\ rx_batch' = Append(rx_batch, m)
    /\ pool' = pool \ {m}
    /\ UNCHANGED <<others, rings, rx_token, tx_batch, status, numbers>>

\* The reactor is cancelled, or its thread unwinds: both ArrayVecs drop their
\* Mbufs.  What tx_batch still held is not sent.
DropDevice ==
    /\ status # "dropped"
    /\ rx_token = None
    /\ pool' = pool \cup ToSet(rx_batch) \cup ToSet(tx_batch)
    /\ rx_batch' = <<>>
    /\ tx_batch' = <<>>
    /\ status' = "dropped"
    /\ UNCHANGED <<others, rings, rx_token, numbers>>

-----------------------------------------------------------------------------

Consume == ConsumeSilently \/ ConsumeAnswerLost \/ \E m \in Mbufs : ConsumeAnswering(m)

Next ==
    \/ NicTransmit
    \/ \E m \in Mbufs : NicReceive(m) \/ OthersAlloc(m) \/ OthersFree(m)
    \/ Receive
    \/ Consume
    \/ TransmitNothing
    \/ \E m \in Mbufs : Transmit(m) \/ InjectRxPacket(m)
    \/ DropDevice

Spec == Init /\ [][Next]_vars

\* The reactor calls receive() in every round and smoltcp always finishes
\* with a token; the NIC drains its ring.
FairSpec == Spec /\ WF_vars(Receive) /\ WF_vars(Consume) /\ WF_vars(NicTransmit)

-----------------------------------------------------------------------------

Token == IF rx_token = None THEN {} ELSE {rx_token}

\* The mbufs on their way to smoltcp, and those on their way to the wire.
Receiving == ToSet(rx_ring) \cup ToSet(rx_batch) \cup Token
Sending   == ToSet(tx_batch) \cup ToSet(tx_ring)

Disjoint(A, B) == A \cap B = {}

\* Types, and the capacities of the two ArrayVecs and of the rings.
TypeOK ==
    /\ pool \subseteq Mbufs
    /\ others \subseteq Mbufs
    /\ rx_ring \in Seq(Mbufs) /\ Len(rx_ring) <= RxRingSize
    /\ rx_batch \in Seq(Mbufs) /\ Len(rx_batch) <= RxCap
    /\ rx_token \in Mbufs \cup {None}
    /\ tx_batch \in Seq(Mbufs) /\ Len(tx_batch) <= TxCap
    /\ tx_ring \in Seq(Mbufs) /\ Len(tx_ring) <= TxRingSize
    /\ status \in {"running", "panicked", "dropped"}
    /\ frame \in [Mbufs -> Nat]
    /\ tx_no \in Nat

\* No mbuf is held twice: what the pool may hand out, the NIC may write to or
\* smoltcp may read is never also somewhere else (no double free, no use
\* after the NIC took it).
OwnedOnce ==
    /\ IsInjective(rx_ring) /\ IsInjective(rx_batch)
    /\ IsInjective(tx_batch) /\ IsInjective(tx_ring)
    /\ Disjoint(pool, others \cup Receiving \cup Sending)
    /\ Disjoint(others, Receiving \cup Sending)
    /\ Disjoint(Receiving, Sending)
    /\ Disjoint(ToSet(rx_ring), ToSet(rx_batch) \cup Token)
    /\ Disjoint(ToSet(rx_batch), Token)
    /\ Disjoint(ToSet(tx_batch), ToSet(tx_ring))

\* No mbuf is lost, on any path: a lost answer, a full batch, a panic, the
\* device dropped with frames still in its batches.
NoMbufLost == Mbufs = pool \cup others \cup Receiving \cup Sending

\* The NIC is given the frames in the order smoltcp emitted them, also when
\* a full ring takes only part of a burst and the rest waits for the next.
TxInOrder ==
    LET queued == tx_ring \o tx_batch
    IN \A i, j \in DOMAIN queued : i < j => frame[queued[i]] < frame[queued[j]]

\* A frame in tx_batch does not stay there for ever while the reactor runs.
TxFlushed ==
    \A m \in Mbufs :
        m \in ToSet(tx_batch) ~> m \notin ToSet(tx_batch) \/ status # "running"

\* A TX token always finds space in tx_batch: the expect() never fires.
TokenHasSpace == status # "panicked"
=============================================================================
