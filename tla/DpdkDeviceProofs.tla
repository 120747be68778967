-------------------------- MODULE DpdkDeviceProofs --------------------------
(***************************************************************************)
(* Ownership of the mbufs of a DpdkDevice, for any pool, batch, burst and  *)
(* ring sizes: every mbuf has one holder and none is ever lost.  The       *)
(* frames reach the NIC in the order they were emitted, and the data of an *)
(* mbuf stays in its buffer.                                               *)
(*                                                                         *)
(* The argument: TypeOK (the capacities bound how much a burst may move),  *)
(* OwnedOnce and NoMbufLost are inductive together.  The lemmas say what   *)
(* the two operations that move many mbufs at once do to the sets of       *)
(* holders: a flush moves mbufs within Sending, a receive moves mbufs      *)
(* within Receiving and takes the injected ones from the pool.             *)
(***************************************************************************)
EXTENDS DpdkDevice, SequenceLemmas

\* One mbuf, from the pool to its return: see the last section.
CONSTANTS DataRoom, Headroom, Lens

VARIABLES at, off, dlen, plen, slice

M == INSTANCE Mbuf

Safe == TypeOK /\ OwnedOnce /\ NoMbufLost

\* A burst never takes more than tx_batch holds or the ring has room for.
LEMMA TxSentBounds ==
    ASSUME TypeOK
    PROVE  /\ TxSent \in Nat /\ TxSent <= Len(tx_batch)
           /\ Len(tx_ring) + TxSent <= TxRingSize
           /\ Flushed \in Nat /\ Flushed <= Len(tx_batch)
           /\ Len(tx_ring) + Flushed <= TxRingSize
<1>1. Len(tx_batch) \in Nat /\ Len(tx_ring) \in Nat /\ Len(tx_ring) <= TxRingSize
    BY DEF TypeOK
<1>2. /\ TxSent \in Nat /\ TxSent <= Len(tx_batch)
      /\ Len(tx_ring) + TxSent <= TxRingSize
    BY <1>1, SizesAssumption DEF TxSent, Least
<1> QED BY <1>1, <1>2 DEF Flushed

\* A flush of n mbufs moves them from tx_batch to the ring.
LEMMA FlushMoves ==
    ASSUME TypeOK, OwnedOnce, NEW n \in Nat, n <= Len(tx_batch),
           Len(tx_ring) + n <= TxRingSize
    PROVE  \E ring, batch \in Seq(Mbufs) :
           /\ ring = tx_ring \o SubSeq(tx_batch, 1, n)
           /\ batch = SubSeq(tx_batch, n + 1, Len(tx_batch))
           /\ Len(ring) <= TxRingSize /\ IsInjective(ring)
           /\ Len(batch) = Len(tx_batch) - n /\ IsInjective(batch)
           /\ ToSet(batch) \cup ToSet(ring) = Sending
           /\ ToSet(batch) \cap ToSet(ring) = {}
<1> DEFINE p == SubSeq(tx_batch, 1, n)
           q == SubSeq(tx_batch, n + 1, Len(tx_batch))
           r == tx_ring \o p
<1>1. /\ tx_batch \in Seq(Mbufs) /\ tx_ring \in Seq(Mbufs)
      /\ IsInjective(tx_batch) /\ IsInjective(tx_ring)
      /\ ToSet(tx_batch) \cap ToSet(tx_ring) = {}
    BY DEF TypeOK, OwnedOnce, Disjoint
<1>2. /\ p \in Seq(Mbufs) /\ Len(p) = n
      /\ q \in Seq(Mbufs) /\ Len(q) = Len(tx_batch) - n
      /\ ToSet(tx_batch) = ToSet(p) \cup ToSet(q)
      /\ IsInjective(tx_batch) => /\ IsInjective(p) /\ IsInjective(q)
                                  /\ ToSet(p) \cap ToSet(q) = {}
    BY <1>1, Cut
<1> HIDE DEF p, q
<1>3. /\ r \in Seq(Mbufs) /\ Len(r) = Len(tx_ring) + Len(p)
      /\ ToSet(r) = ToSet(tx_ring) \cup ToSet(p)
      /\ IsInjective(tx_ring) /\ IsInjective(p) /\ ToSet(tx_ring) \cap ToSet(p) = {}
            => IsInjective(r)
    BY <1>1, <1>2, Joined, Zenon
<1> HIDE DEF r
<1>4. /\ IsInjective(r) /\ IsInjective(q) /\ Len(r) <= TxRingSize
      /\ ToSet(q) \cup ToSet(r) = Sending /\ ToSet(q) \cap ToSet(r) = {}
    BY <1>1, <1>2, <1>3 DEF Sending
<1> QED BY <1>2, <1>3, <1>4, Zenon DEF p, q, r

\* What Sent(n) leaves in tx_batch and in the ring.
LEMMA SentMoves ==
    ASSUME TypeOK, OwnedOnce, NEW n \in Nat, n <= Len(tx_batch),
           Len(tx_ring) + n <= TxRingSize, Sent(n)
    PROVE  /\ tx_ring' \in Seq(Mbufs) /\ Len(tx_ring') <= TxRingSize
           /\ tx_batch' \in Seq(Mbufs) /\ Len(tx_batch') = Len(tx_batch) - n
           /\ IsInjective(tx_ring') /\ IsInjective(tx_batch')
           /\ ToSet(tx_batch') \cup ToSet(tx_ring') = Sending
           /\ ToSet(tx_batch') \cap ToSet(tx_ring') = {}
BY FlushMoves DEF Sent

\* A burst never brings more than the ring holds or rx_batch has room for.
LEMMA RxTakenBounds ==
    ASSUME TypeOK
    PROVE  /\ RxTaken \in Nat /\ RxTaken <= Len(rx_ring)
           /\ Len(rx_batch) + RxTaken <= RxCap
<1>1. /\ Len(rx_batch) \in Nat /\ Len(rx_batch) <= RxCap /\ Len(rx_ring) \in Nat
      /\ rx_batch = <<>> => Len(rx_batch) = 0
    BY DEF TypeOK
<1> QED BY <1>1, SizesAssumption DEF RxTaken, Least

\* n distinct free mbufs, as a sequence.
LEMMA InjectionsType ==
    ASSUME TypeOK, NEW n \in Nat, NEW injected \in Injections(n)
    PROVE  /\ injected \in Seq(Mbufs) /\ Len(injected) = n
           /\ IsInjective(injected) /\ ToSet(injected) \subseteq pool
<1>1. injected \in [1 .. n -> pool] /\ IsInjective(injected)
    BY DEF Injections
<1>2. injected \in Seq(pool) /\ Len(injected) = n /\ pool \subseteq Mbufs
    BY <1>1 DEF TypeOK
<1>3. injected \in Seq(Mbufs)
    BY <1>1, <1>2
<1>4. ToSet(injected) \subseteq pool
    BY <1>1, <1>2 DEF ToSet
<1> QED BY <1>1, <1>2, <1>3, <1>4

\* A poll_rx and an injection move mbufs from the ring and the pool to rx_batch.
LEMMA BatchFilled ==
    ASSUME TypeOK, OwnedOnce, NEW n \in Nat, NEW injected \in Injections(n),
           n <= RxCap - Len(rx_batch \o SubSeq(rx_ring, 1, RxTaken))
    PROVE  \E rest, batch \in Seq(Mbufs) :
           /\ rest = SubSeq(rx_ring, RxTaken + 1, Len(rx_ring))
           /\ batch = (rx_batch \o SubSeq(rx_ring, 1, RxTaken)) \o injected
           /\ Len(rest) <= RxRingSize /\ IsInjective(rest)
           /\ Len(batch) <= RxCap /\ IsInjective(batch)
           /\ ToSet(rest) \cup ToSet(batch)
                 = ToSet(rx_ring) \cup ToSet(rx_batch) \cup ToSet(injected)
           /\ ToSet(rest) \cap ToSet(batch) = {}
           /\ ToSet(rx_batch) \subseteq ToSet(batch)
<1> DEFINE p == SubSeq(rx_ring, 1, RxTaken)
           q == SubSeq(rx_ring, RxTaken + 1, Len(rx_ring))
           polled == rx_batch \o p
           batch == polled \o injected
<1>1. /\ rx_ring \in Seq(Mbufs) /\ Len(rx_ring) <= RxRingSize
      /\ rx_batch \in Seq(Mbufs) /\ Len(rx_batch) \in Nat
      /\ IsInjective(rx_ring) /\ IsInjective(rx_batch)
      /\ ToSet(rx_ring) \cap ToSet(rx_batch) = {}
      /\ pool \cap (ToSet(rx_ring) \cup ToSet(rx_batch)) = {}
    BY DEF TypeOK, OwnedOnce, Disjoint, Receiving
<1>2. RxTaken \in Nat /\ RxTaken <= Len(rx_ring) /\ Len(rx_batch) + RxTaken <= RxCap
    BY RxTakenBounds
<1>3. /\ injected \in Seq(Mbufs) /\ Len(injected) = n
      /\ IsInjective(injected) /\ ToSet(injected) \subseteq pool
    BY InjectionsType
<1>4. /\ p \in Seq(Mbufs) /\ Len(p) = RxTaken
      /\ q \in Seq(Mbufs) /\ Len(q) = Len(rx_ring) - RxTaken
      /\ ToSet(rx_ring) = ToSet(p) \cup ToSet(q)
      /\ IsInjective(rx_ring) => /\ IsInjective(p) /\ IsInjective(q)
                                  /\ ToSet(p) \cap ToSet(q) = {}
    BY <1>1, <1>2, Cut
<1>n. n <= RxCap - Len(polled)
    OBVIOUS
<1> HIDE DEF p, q
<1>5. /\ polled \in Seq(Mbufs) /\ Len(polled) = Len(rx_batch) + Len(p)
      /\ ToSet(polled) = ToSet(rx_batch) \cup ToSet(p)
      /\ IsInjective(rx_batch) /\ IsInjective(p) /\ ToSet(rx_batch) \cap ToSet(p) = {}
            => IsInjective(polled)
    BY <1>1, <1>4, Joined, Zenon
<1> HIDE DEF polled
<1>6. /\ batch \in Seq(Mbufs) /\ Len(batch) = Len(polled) + Len(injected)
      /\ ToSet(batch) = ToSet(polled) \cup ToSet(injected)
      /\ IsInjective(polled) /\ IsInjective(injected) /\ ToSet(polled) \cap ToSet(injected) = {}
            => IsInjective(batch)
    BY <1>3, <1>5, Joined, Zenon
<1> HIDE DEF batch
<1>7. IsInjective(polled) /\ ToSet(polled) \cap ToSet(injected) = {}
    BY <1>1, <1>3, <1>4, <1>5
<1>8. Len(q) <= RxRingSize /\ Len(batch) <= RxCap
    BY <1>1, <1>2, <1>3, <1>4, <1>5, <1>6, <1>n, SizesAssumption
<1>9. /\ IsInjective(q) /\ IsInjective(batch)
      /\ ToSet(q) \cup ToSet(batch)
            = ToSet(rx_ring) \cup ToSet(rx_batch) \cup ToSet(injected)
      /\ ToSet(q) \cap ToSet(batch) = {}
      /\ ToSet(rx_batch) \subseteq ToSet(batch)
    BY <1>1, <1>3, <1>4, <1>5, <1>6, <1>7
<1> QED BY <1>4, <1>6, <1>8, <1>9, Zenon DEF p, q, polled, batch

-----------------------------------------------------------------------------

\* receive() keeps the mbufs accounted for.
LEMMA ReceiveStep == Safe /\ Receive => Safe'
<1> SUFFICES ASSUME Safe, Receive PROVE Safe'
    OBVIOUS
<1>0. TypeOK /\ OwnedOnce /\ NoMbufLost
    BY DEF Safe
<1>1. /\ tx_ring' \in Seq(Mbufs) /\ Len(tx_ring') <= TxRingSize
      /\ tx_batch' \in Seq(Mbufs) /\ Len(tx_batch') <= TxCap
      /\ IsInjective(tx_ring') /\ IsInjective(tx_batch')
      /\ ToSet(tx_batch') \cup ToSet(tx_ring') = Sending
      /\ ToSet(tx_batch') \cap ToSet(tx_ring') = {}
    <2>1. Sent(TxSent)
        BY DEF Receive, FlushTx
    <2>2. TxSent \in Nat /\ TxSent <= Len(tx_batch) /\ Len(tx_ring) + TxSent <= TxRingSize
        BY <1>0, TxSentBounds
    <2>3. /\ tx_ring' \in Seq(Mbufs) /\ Len(tx_ring') <= TxRingSize
          /\ tx_batch' \in Seq(Mbufs) /\ Len(tx_batch') = Len(tx_batch) - TxSent
          /\ IsInjective(tx_ring') /\ IsInjective(tx_batch')
          /\ ToSet(tx_batch') \cup ToSet(tx_ring') = Sending
          /\ ToSet(tx_batch') \cap ToSet(tx_ring') = {}
        BY <1>0, <2>1, <2>2, SentMoves
    <2>4. Len(tx_batch) \in Nat /\ Len(tx_batch) <= TxCap
        BY <1>0 DEF TypeOK
    <2> QED BY <2>2, <2>3, <2>4, SizesAssumption
<1> DEFINE filled(injected) == (rx_batch \o SubSeq(rx_ring, 1, RxTaken)) \o injected
           Outcome(injected) ==
               /\ pool' = pool \ ToSet(injected)
               /\ \/ filled(injected) = <<>> /\ UNCHANGED <<rx_batch, rx_token>>
                  \/ /\ filled(injected) # <<>>
                     /\ rx_token' = Last(filled(injected))
                     /\ rx_batch' = Front(filled(injected))
<1>a. PICK n \in 0 .. Least(MaxInject, RxCap - Len(rx_batch \o SubSeq(rx_ring, 1, RxTaken))) :
        \E injected \in Injections(n) : Outcome(injected)
    BY DEF Receive
<1>2. PICK injected \in Injections(n) : Outcome(injected)
    BY <1>a
<1>3. n \in Nat /\ n <= RxCap - Len(rx_batch \o SubSeq(rx_ring, 1, RxTaken))
    <2>1. rx_batch \o SubSeq(rx_ring, 1, RxTaken) \in Seq(Mbufs)
        <3>1. RxTaken \in Nat /\ RxTaken <= Len(rx_ring)
            BY <1>0, RxTakenBounds
        <3>2. SubSeq(rx_ring, 1, RxTaken) \in Seq(Mbufs)
            BY <1>0, <3>1, Cut DEF TypeOK
        <3> QED BY <1>0, <3>2, Joined DEF TypeOK
    <2> DEFINE used == Len(rx_batch \o SubSeq(rx_ring, 1, RxTaken))
    <2>2. used \in Nat /\ n \in 0 .. Least(MaxInject, RxCap - used)
        BY <1>a, <2>1
    <2> HIDE DEF used
    <2>3. n \in Nat /\ n <= RxCap - used
        BY <2>2, SizesAssumption DEF Least
    <2> QED BY <2>3 DEF used
<1>4. /\ injected \in Seq(Mbufs) /\ ToSet(injected) \subseteq pool
    BY <1>0, <1>3, InjectionsType
<1>5. PICK rest \in Seq(Mbufs), batch \in Seq(Mbufs) :
           /\ rest = SubSeq(rx_ring, RxTaken + 1, Len(rx_ring))
           /\ batch = (rx_batch \o SubSeq(rx_ring, 1, RxTaken)) \o injected
           /\ Len(rest) <= RxRingSize /\ IsInjective(rest)
           /\ Len(batch) <= RxCap /\ IsInjective(batch)
           /\ ToSet(rest) \cup ToSet(batch)
                 = ToSet(rx_ring) \cup ToSet(rx_batch) \cup ToSet(injected)
           /\ ToSet(rest) \cap ToSet(batch) = {}
           /\ ToSet(rx_batch) \subseteq ToSet(batch)
    BY <1>0, <1>3, BatchFilled
<1>6. /\ rx_ring' = rest
      /\ pool' = pool \ ToSet(injected)
      /\ rx_token = None
      /\ UNCHANGED <<others, status, numbers>>
    BY <1>2, <1>5 DEF Receive
<1>7. /\ rx_batch' \in Seq(Mbufs) /\ Len(rx_batch') <= RxCap /\ IsInjective(rx_batch')
      /\ rx_token' \in Mbufs \cup {None}
      /\ ToSet(rx_batch') \cup Token' = ToSet(batch)
      /\ ToSet(rx_batch') \cap Token' = {}
    <2>1. CASE batch = <<>>
        <3>1. UNCHANGED <<rx_batch, rx_token>>
            BY <1>2, <1>5, <2>1
        <3>2. rx_batch = <<>>
            <4>1. ToSet(rx_batch) = {}
                BY <1>5, <2>1, Empty
            <4>2. rx_batch # <<>> => rx_batch[1] \in ToSet(rx_batch)
                BY <1>0 DEF ToSet, TypeOK
            <4> QED BY <4>1, <4>2
        <3> QED BY <1>0, <1>6, <3>1, <3>2, <2>1, Empty, SizesAssumption DEF Token
    <2>2. CASE batch # <<>>
        <3>1. rx_token' = Last(batch) /\ rx_batch' = Front(batch)
            BY <1>2, <1>5, <2>2
        <3>a. batch # <<>> /\ IsInjective(batch) /\ batch \in Seq(Mbufs)
            BY <1>5, <2>2
        <3>b. /\ Last(batch) \in Mbufs /\ Front(batch) \in Seq(Mbufs)
              /\ Len(Front(batch)) = Len(batch) - 1
              /\ ToSet(batch) = ToSet(Front(batch)) \cup {Last(batch)}
              /\ IsInjective(batch) =>
                    IsInjective(Front(batch)) /\ Last(batch) \notin ToSet(Front(batch))
            BY <3>a, Popped, Zenon
        <3>2. /\ Last(batch) \in Mbufs /\ Front(batch) \in Seq(Mbufs)
              /\ Len(Front(batch)) = Len(batch) - 1
              /\ ToSet(batch) = ToSet(Front(batch)) \cup {Last(batch)}
              /\ IsInjective(Front(batch)) /\ Last(batch) \notin ToSet(Front(batch))
            BY <3>a, <3>b
        <3>3. Token' = {Last(batch)}
            BY <3>1, <3>2, NoneAssumption DEF Token
        <3>4. Len(rx_batch') <= RxCap
            BY <1>5, <3>1, <3>2, SizesAssumption
        <3> QED BY <3>1, <3>2, <3>3, <3>4
    <2> QED BY <2>1, <2>2
<1>8. TypeOK'
    BY <1>0, <1>1, <1>5, <1>6, <1>7 DEF TypeOK, numbers
<1>9. OwnedOnce' /\ NoMbufLost'
    <2>1. Sending' = Sending
        BY <1>1 DEF Sending
    <2>2. Receiving' = Receiving \cup ToSet(injected)
        BY <1>5, <1>6, <1>7 DEF Receiving, Token
    <2> QED BY <1>0, <1>1, <1>4, <1>5, <1>6, <1>7, <2>1, <2>2
            DEF OwnedOnce, NoMbufLost, Disjoint
<1> QED BY <1>8, <1>9 DEF Safe

\* One frame emitted: the mbuf m moves from the pool to the end of tx_batch,
\* after a flush of Flushed mbufs.
LEMMA TransmitStep ==
    ASSUME Safe, NEW m \in Mbufs, Transmit(m)
    PROVE  Safe'
<1>0. TypeOK /\ OwnedOnce /\ NoMbufLost
    BY DEF Safe
<1>1. Flushed \in Nat /\ Flushed <= Len(tx_batch) /\ Len(tx_ring) + Flushed <= TxRingSize
    BY <1>0, TxSentBounds
<1>2. PICK ring \in Seq(Mbufs), batch \in Seq(Mbufs) :
           /\ ring = tx_ring \o SubSeq(tx_batch, 1, Flushed)
           /\ batch = SubSeq(tx_batch, Flushed + 1, Len(tx_batch))
           /\ Len(ring) <= TxRingSize /\ IsInjective(ring)
           /\ Len(batch) = Len(tx_batch) - Flushed /\ IsInjective(batch)
           /\ ToSet(batch) \cup ToSet(ring) = Sending
           /\ ToSet(batch) \cap ToSet(ring) = {}
    BY <1>0, <1>1, FlushMoves
<1>3. /\ m \in pool /\ pool' = pool \ {m}
      /\ tx_ring' = ring /\ tx_batch' = Append(batch, m) /\ Len(batch) < TxCap
      /\ tx_no' = tx_no + 1 /\ frame' = [frame EXCEPT ![m] = tx_no + 1]
      /\ UNCHANGED <<others, rx_ring, rx_batch, rx_token, status>>
    BY <1>2 DEF Transmit
<1>4. m \notin Sending
    BY <1>0, <1>3 DEF OwnedOnce, Disjoint
<1>5. /\ Append(batch, m) \in Seq(Mbufs) /\ Len(Append(batch, m)) = Len(batch) + 1
      /\ ToSet(Append(batch, m)) = ToSet(batch) \cup {m}
      /\ IsInjective(batch) /\ m \notin ToSet(batch) => IsInjective(Append(batch, m))
    BY Appended, Zenon
<1>6. IsInjective(tx_batch') /\ ToSet(tx_batch') = ToSet(batch) \cup {m}
    BY <1>2, <1>3, <1>4, <1>5
<1>7. Len(tx_batch') <= TxCap
    BY <1>2, <1>3, <1>5, SizesAssumption
<1>8. TypeOK'
    <2>1. frame' \in [Mbufs -> Nat] /\ tx_no' \in Nat
        BY <1>0, <1>3 DEF TypeOK
    <2>2. tx_ring' \in Seq(Mbufs) /\ Len(tx_ring') <= TxRingSize /\ tx_batch' \in Seq(Mbufs)
        BY <1>2, <1>3, <1>5
    <2> QED BY <1>0, <1>3, <1>7, <2>1, <2>2 DEF TypeOK
<1>9. OwnedOnce' /\ NoMbufLost'
    <2>1. Sending' = Sending \cup {m} /\ IsInjective(tx_ring')
          /\ ToSet(tx_batch') \cap ToSet(tx_ring') = {}
        BY <1>2, <1>3, <1>4, <1>6 DEF Sending
    <2>2. Receiving' = Receiving /\ Token' = Token
        BY <1>3 DEF Receiving, Token
    <2> QED BY <1>0, <1>3, <1>6, <2>1, <2>2 DEF OwnedOnce, NoMbufLost, Disjoint
<1> QED BY <1>8, <1>9 DEF Safe

\* smoltcp answers a received frame: the answer's mbuf moves from the pool to
\* tx_batch and the frame's mbuf back to the pool, or, with a full tx_batch,
\* the panic gives both back.
LEMMA AnswerStep ==
    ASSUME Safe, NEW m \in Mbufs, ConsumeAnswering(m)
    PROVE  Safe'
<1>0. TypeOK /\ OwnedOnce /\ NoMbufLost
    BY DEF Safe
<1>1. /\ rx_token # None /\ m \in pool /\ rx_token' = None
      /\ UNCHANGED <<others, rx_ring, tx_ring, rx_batch>>
    BY DEF ConsumeAnswering, rings
<1>2. Token = {rx_token} /\ Token' = {} /\ rx_token \in Mbufs
    BY <1>0, <1>1 DEF Token, TypeOK
<1>3. /\ Receiving = ToSet(rx_ring) \cup ToSet(rx_batch) \cup {rx_token}
      /\ Receiving' = ToSet(rx_ring) \cup ToSet(rx_batch)
    BY <1>1, <1>2 DEF Receiving
<1>4. CASE Len(tx_batch) < TxCap
    <2>1. /\ pool' = (pool \ {m}) \cup {rx_token} /\ tx_batch' = Append(tx_batch, m)
          /\ tx_no' = tx_no + 1 /\ frame' = [frame EXCEPT ![m] = tx_no + 1]
          /\ UNCHANGED status
        BY <1>0, <1>4, SizesAssumption DEF ConsumeAnswering, DropRxToken, TypeOK
    <2>2. m \notin Sending /\ tx_batch \in Seq(Mbufs) /\ IsInjective(tx_batch)
        BY <1>0, <1>1 DEF OwnedOnce, Disjoint, TypeOK
    <2>3. /\ Append(tx_batch, m) \in Seq(Mbufs) /\ Len(Append(tx_batch, m)) = Len(tx_batch) + 1
          /\ ToSet(Append(tx_batch, m)) = ToSet(tx_batch) \cup {m}
          /\ IsInjective(tx_batch) /\ m \notin ToSet(tx_batch)
                => IsInjective(Append(tx_batch, m))
        BY <2>2, Appended, Zenon
    <2>4. /\ tx_batch' \in Seq(Mbufs) /\ ToSet(tx_batch') = ToSet(tx_batch) \cup {m}
          /\ IsInjective(tx_batch')
        BY <2>1, <2>2, <2>3 DEF Sending
    <2>5. Len(tx_batch') <= TxCap
        BY <1>4, <2>1, <2>2, <2>3, SizesAssumption
    <2>6. frame' \in [Mbufs -> Nat] /\ tx_no' \in Nat
        BY <1>0, <2>1 DEF TypeOK
    <2>7. TypeOK'
        BY <1>0, <1>1, <1>2, <2>1, <2>4, <2>5, <2>6 DEF TypeOK
    <2>8. Sending' = Sending \cup {m}
        BY <1>1, <2>4 DEF Sending
    <2>9. OwnedOnce' /\ NoMbufLost'
        BY <1>0, <1>1, <1>2, <1>3, <2>1, <2>2, <2>4, <2>8
           DEF OwnedOnce, NoMbufLost, Disjoint, Sending
    <2> QED BY <2>7, <2>9 DEF Safe
<1>5. CASE Len(tx_batch) >= TxCap
    <2>1. /\ pool' = pool \cup {rx_token} /\ status' = "panicked"
          /\ UNCHANGED <<tx_batch, tx_no, frame>>
        BY <1>0, <1>5, SizesAssumption DEF ConsumeAnswering, DropRxToken, TypeOK
    <2>2. TypeOK'
        BY <1>0, <1>1, <1>2, <2>1 DEF TypeOK
    <2>3. Sending' = Sending
        BY <1>1, <2>1 DEF Sending
    <2>4. OwnedOnce' /\ NoMbufLost'
        BY <1>0, <1>1, <1>2, <1>3, <2>1, <2>3 DEF OwnedOnce, NoMbufLost, Disjoint
    <2> QED BY <2>2, <2>4 DEF Safe
<1> QED
    <2>1. Len(tx_batch) \in Nat
        BY <1>0 DEF TypeOK
    <2> QED BY <1>4, <1>5, <2>1, SizesAssumption

\* The frame's mbuf goes back to the pool and nothing else moves.
LEMMA TokenFreed ==
    ASSUME Safe, rx_token # None, pool' = pool \cup {rx_token}, rx_token' = None,
           UNCHANGED <<others, rings, rx_batch, tx_batch, status, numbers>>
    PROVE  Safe'
<1>0. TypeOK /\ OwnedOnce /\ NoMbufLost
    BY DEF Safe
<1>1. UNCHANGED <<others, rx_ring, tx_ring, rx_batch, tx_batch, status, frame, tx_no>>
    BY DEF rings, numbers
<1>2. Token = {rx_token} /\ Token' = {} /\ rx_token \in Mbufs
    BY <1>0 DEF Token, TypeOK
<1>3. TypeOK'
    BY <1>0, <1>1, <1>2 DEF TypeOK
<1>4. /\ Receiving = ToSet(rx_ring) \cup ToSet(rx_batch) \cup {rx_token}
      /\ Receiving' = ToSet(rx_ring) \cup ToSet(rx_batch) /\ Sending' = Sending
    BY <1>1, <1>2 DEF Receiving, Sending
<1>5. OwnedOnce' /\ NoMbufLost'
    BY <1>0, <1>1, <1>2, <1>4 DEF OwnedOnce, NoMbufLost, Disjoint
<1> QED BY <1>3, <1>5 DEF Safe

\* Every step keeps every mbuf in exactly one place.
LEMMA SafeStep == Safe /\ [Next]_vars => Safe'
<1> SUFFICES ASSUME Safe, [Next]_vars PROVE Safe'
    OBVIOUS
<1> USE DEF rings, numbers
<1>0. TypeOK /\ OwnedOnce /\ NoMbufLost
    BY DEF Safe
<1>1. CASE NicTransmit
    <2>1. tx_ring \in Seq(Mbufs) /\ tx_ring # <<>> /\ IsInjective(tx_ring)
        BY <1>0, <1>1 DEF NicTransmit, TypeOK, OwnedOnce
    <2>2. /\ Head(tx_ring) \in Mbufs /\ Tail(tx_ring) \in Seq(Mbufs)
          /\ Len(Tail(tx_ring)) = Len(tx_ring) - 1
          /\ ToSet(tx_ring) = {Head(tx_ring)} \cup ToSet(Tail(tx_ring))
          /\ IsInjective(tx_ring) =>
                IsInjective(Tail(tx_ring)) /\ Head(tx_ring) \notin ToSet(Tail(tx_ring))
        BY <2>1, Headed, Zenon
    <2>3. /\ tx_ring' = Tail(tx_ring) /\ pool' = pool \cup {Head(tx_ring)}
          /\ UNCHANGED <<others, rx_ring, rx_batch, rx_token, tx_batch, status, frame, tx_no>>
        BY <1>1 DEF NicTransmit
    <2>4. Len(tx_ring') <= TxRingSize
        BY <1>0, <2>1, <2>2, <2>3, SizesAssumption DEF TypeOK
    <2>5. TypeOK'
        BY <1>0, <2>2, <2>3, <2>4 DEF TypeOK
    <2>6. /\ Receiving' = Receiving /\ Token' = Token
          /\ Sending = ToSet(tx_batch) \cup ToSet(tx_ring)
          /\ Sending' = ToSet(tx_batch) \cup ToSet(tx_ring')
        BY <2>3 DEF Receiving, Token, Sending
    <2>7. OwnedOnce' /\ NoMbufLost'
        BY <1>0, <2>1, <2>2, <2>3, <2>6 DEF OwnedOnce, NoMbufLost, Disjoint
    <2> QED BY <2>5, <2>7 DEF Safe
<1>2. ASSUME NEW m \in Mbufs, NicReceive(m) PROVE Safe'
    <2>1. /\ m \in pool /\ pool' = pool \ {m} /\ rx_ring' = Append(rx_ring, m)
          /\ Len(rx_ring) < RxRingSize
          /\ UNCHANGED <<others, rx_batch, rx_token, tx_batch, tx_ring, status, frame, tx_no>>
        BY <1>2 DEF NicReceive
    <2>2. rx_ring \in Seq(Mbufs) /\ IsInjective(rx_ring) /\ m \notin Receiving
        BY <1>0, <2>1 DEF TypeOK, OwnedOnce, Disjoint
    <2>3. /\ Append(rx_ring, m) \in Seq(Mbufs) /\ Len(Append(rx_ring, m)) = Len(rx_ring) + 1
          /\ ToSet(Append(rx_ring, m)) = ToSet(rx_ring) \cup {m}
          /\ IsInjective(rx_ring) /\ m \notin ToSet(rx_ring)
                => IsInjective(Append(rx_ring, m))
        BY <2>2, Appended, Zenon
    <2>4. Len(rx_ring') <= RxRingSize
        BY <2>1, <2>2, <2>3, SizesAssumption
    <2>5. IsInjective(rx_ring') /\ ToSet(rx_ring') = ToSet(rx_ring) \cup {m}
        BY <2>1, <2>2, <2>3 DEF Receiving
    <2>6. TypeOK'
        BY <1>0, <2>1, <2>3, <2>4 DEF TypeOK
    <2>7. Sending' = Sending /\ Token' = Token /\ Receiving' = Receiving \cup {m}
        BY <2>1, <2>5 DEF Sending, Token, Receiving
    <2>8. OwnedOnce' /\ NoMbufLost'
        BY <1>0, <2>1, <2>2, <2>5, <2>7 DEF OwnedOnce, NoMbufLost, Disjoint, Receiving
    <2> QED BY <2>6, <2>8 DEF Safe
<1>3. ASSUME NEW m \in Mbufs, OthersAlloc(m) \/ OthersFree(m) PROVE Safe'
    <2>1. /\ \/ m \in pool /\ pool' = pool \ {m} /\ others' = others \cup {m}
             \/ m \in others /\ others' = others \ {m} /\ pool' = pool \cup {m}
          /\ UNCHANGED <<rx_ring, tx_ring, rx_batch, rx_token, tx_batch, status, frame, tx_no>>
        BY <1>3 DEF OthersAlloc, OthersFree
    <2>2. TypeOK'
        BY <1>0, <2>1 DEF TypeOK
    <2>3. Sending' = Sending /\ Token' = Token /\ Receiving' = Receiving
        BY <2>1 DEF Sending, Token, Receiving
    <2>4. OwnedOnce' /\ NoMbufLost'
        BY <1>0, <2>1, <2>3 DEF OwnedOnce, NoMbufLost, Disjoint
    <2> QED BY <2>2, <2>4 DEF Safe
<1>4. CASE Receive
    BY <1>4, ReceiveStep
<1>5. CASE ConsumeSilently \/ ConsumeAnswerLost
    BY <1>5, TokenFreed DEF ConsumeSilently, ConsumeAnswerLost, DropRxToken
<1>6. ASSUME NEW m \in Mbufs, ConsumeAnswering(m) PROVE Safe'
    BY <1>6, AnswerStep
<1>7. CASE TransmitNothing
    <2>1. Sent(Flushed) /\ UNCHANGED <<pool, others, rx_ring, rx_batch, rx_token,
                                       status, frame, tx_no>>
        BY <1>7 DEF TransmitNothing
    <2>2. Flushed \in Nat /\ Flushed <= Len(tx_batch) /\ Len(tx_ring) + Flushed <= TxRingSize
        BY <1>0, TxSentBounds
    <2>3. /\ tx_ring' \in Seq(Mbufs) /\ Len(tx_ring') <= TxRingSize
          /\ tx_batch' \in Seq(Mbufs) /\ Len(tx_batch') = Len(tx_batch) - Flushed
          /\ IsInjective(tx_ring') /\ IsInjective(tx_batch')
          /\ ToSet(tx_batch') \cup ToSet(tx_ring') = Sending
          /\ ToSet(tx_batch') \cap ToSet(tx_ring') = {}
        BY <1>0, <2>1, <2>2, SentMoves
    <2>4. Len(tx_batch) \in Nat /\ Len(tx_batch) <= TxCap
        BY <1>0 DEF TypeOK
    <2>5. Len(tx_batch') <= TxCap
        BY <2>2, <2>3, <2>4, SizesAssumption
    <2>6. TypeOK'
        BY <1>0, <2>1, <2>3, <2>5 DEF TypeOK
    <2>7. Sending' = Sending /\ Token' = Token /\ Receiving' = Receiving
        BY <2>1, <2>3 DEF Sending, Token, Receiving
    <2>8. OwnedOnce' /\ NoMbufLost'
        BY <1>0, <2>1, <2>3, <2>7 DEF OwnedOnce, NoMbufLost, Disjoint
    <2> QED BY <2>6, <2>8 DEF Safe
<1>8. ASSUME NEW m \in Mbufs, Transmit(m) PROVE Safe'
    BY <1>8, TransmitStep
<1>9. ASSUME NEW m \in Mbufs, InjectRxPacket(m) PROVE Safe'
    <2>1. /\ m \in pool /\ pool' = pool \ {m} /\ rx_batch' = Append(rx_batch, m)
          /\ Len(rx_batch) < RxCap
          /\ UNCHANGED <<others, rx_ring, rx_token, tx_batch, tx_ring, status, frame, tx_no>>
        BY <1>9 DEF InjectRxPacket
    <2>2. rx_batch \in Seq(Mbufs) /\ IsInjective(rx_batch) /\ m \notin Receiving
        BY <1>0, <2>1 DEF TypeOK, OwnedOnce, Disjoint
    <2>3. /\ Append(rx_batch, m) \in Seq(Mbufs) /\ Len(Append(rx_batch, m)) = Len(rx_batch) + 1
          /\ ToSet(Append(rx_batch, m)) = ToSet(rx_batch) \cup {m}
          /\ IsInjective(rx_batch) /\ m \notin ToSet(rx_batch)
                => IsInjective(Append(rx_batch, m))
        BY <2>2, Appended, Zenon
    <2>4. Len(rx_batch') <= RxCap
        BY <2>1, <2>2, <2>3, SizesAssumption
    <2>5. IsInjective(rx_batch') /\ ToSet(rx_batch') = ToSet(rx_batch) \cup {m}
        BY <2>1, <2>2, <2>3 DEF Receiving
    <2>6. TypeOK'
        BY <1>0, <2>1, <2>3, <2>4 DEF TypeOK
    <2>7. Sending' = Sending /\ Token' = Token /\ Receiving' = Receiving \cup {m}
        BY <2>1, <2>5 DEF Sending, Token, Receiving
    <2>8. OwnedOnce' /\ NoMbufLost'
        BY <1>0, <2>1, <2>2, <2>5, <2>7 DEF OwnedOnce, NoMbufLost, Disjoint, Receiving
    <2> QED BY <2>6, <2>8 DEF Safe
<1>10. CASE DropDevice
    <2>1. /\ rx_token = None /\ pool' = pool \cup ToSet(rx_batch) \cup ToSet(tx_batch)
          /\ rx_batch' = <<>> /\ tx_batch' = <<>> /\ status' = "dropped"
          /\ UNCHANGED <<others, rx_ring, tx_ring, rx_token, frame, tx_no>>
        BY <1>10 DEF DropDevice
    <2>2. /\ ToSet(rx_batch') = {} /\ IsInjective(rx_batch') /\ Len(rx_batch') = 0
          /\ ToSet(tx_batch') = {} /\ IsInjective(tx_batch') /\ Len(tx_batch') = 0
          /\ rx_batch' \in Seq(Mbufs) /\ tx_batch' \in Seq(Mbufs)
        BY <2>1, Empty
    <2>3. ToSet(rx_batch) \subseteq Mbufs /\ ToSet(tx_batch) \subseteq Mbufs
        BY <1>0 DEF NoMbufLost, Receiving, Sending
    <2>4. TypeOK'
        BY <1>0, <2>1, <2>2, <2>3, SizesAssumption DEF TypeOK
    <2>5. /\ Token = {} /\ Token' = {}
          /\ Receiving = ToSet(rx_ring) \cup ToSet(rx_batch) /\ Receiving' = ToSet(rx_ring)
          /\ Sending = ToSet(tx_batch) \cup ToSet(tx_ring) /\ Sending' = ToSet(tx_ring)
        BY <2>1, <2>2 DEF Token, Receiving, Sending
    <2>6. OwnedOnce' /\ NoMbufLost'
        BY <1>0, <2>1, <2>2, <2>5 DEF OwnedOnce, NoMbufLost, Disjoint
    <2> QED BY <2>4, <2>6 DEF Safe
<1>11. CASE UNCHANGED vars
    BY <1>0, <1>11 DEF vars, Safe, TypeOK, OwnedOnce, NoMbufLost, Receiving, Sending, Token
<1> QED
    BY <1>1, <1>2, <1>3, <1>4, <1>5, <1>6, <1>7, <1>8, <1>9, <1>10, <1>11 DEF Next, Consume

\* At the start every mbuf is in the pool.
LEMMA SafeInitially == Init => Safe
<1> SUFFICES ASSUME Init PROVE Safe
    OBVIOUS
<1>1. /\ rx_ring = <<>> /\ rx_batch = <<>> /\ tx_batch = <<>> /\ tx_ring = <<>>
      /\ pool = Mbufs /\ others = {} /\ Token = {}
    BY DEF Init, Token
<1>2. ToSet(<<>>) = {} /\ IsInjective(<<>>) /\ Len(<<>>) = 0 /\ <<>> \in Seq(Mbufs)
    BY Empty
<1>3. TypeOK
    BY <1>1, <1>2, SizesAssumption DEF Init, TypeOK
<1>4. OwnedOnce /\ NoMbufLost
    BY <1>1, <1>2 DEF OwnedOnce, NoMbufLost, Disjoint, Receiving, Sending
<1> QED BY <1>3, <1>4 DEF Safe

\* Neither batch of a DpdkDevice nor a ring of the NIC is ever filled past its
\* capacity, whatever the bursts, injections and flushes do.
THEOREM DeviceTypeCorrect == Spec => []TypeOK
<1>1. Safe => TypeOK
    BY DEF Safe
<1> QED BY <1>1, SafeInitially, SafeStep, PTL DEF Spec

\* No mbuf is ever held twice: not freed twice by Drop, not written by smoltcp
\* after rte_eth_tx_burst gave it to the NIC, for any pool and any sizes.
THEOREM MbufsOwnedOnce == Spec => []OwnedOnce
<1>1. Safe => OwnedOnce
    BY DEF Safe
<1> QED BY <1>1, SafeInitially, SafeStep, PTL DEF Spec

\* No mbuf ever leaves the pool for good: every early return, lost answer,
\* panic and drop of DpdkDevice gives back what it held.
THEOREM NoMbufEverLost == Spec => []NoMbufLost
<1>1. Safe => NoMbufLost
    BY DEF Safe
<1> QED BY <1>1, SafeInitially, SafeStep, PTL DEF Spec

-----------------------------------------------------------------------------
(* The order of the frames on their way to the wire.                       *)

\* The frames of a queue ascend.
Ascending(q, f) == \A i, j \in 1 .. Len(q) : i < j => f[q[i]] < f[q[j]]

\* The first frame of a queue leaves, or one with a higher number is added.
LEMMA AscendingMoves ==
    ASSUME NEW q \in Seq(Mbufs), NEW f \in [Mbufs -> Nat], Ascending(q, f)
    PROVE  /\ q # <<>> => Ascending(Tail(q), f)
           /\ \A g \in [Mbufs -> Nat], m \in Mbufs, k \in Nat :
                (\A x \in Mbufs : f[x] < k) /\ m \notin ToSet(q) /\ g = [f EXCEPT ![m] = k]
                   => Ascending(Append(q, m), g)
<1>1. ASSUME q # <<>> PROVE Ascending(Tail(q), f)
  <2>1. \A i \in 1 .. Len(Tail(q)) : i + 1 \in 1 .. Len(q) /\ Tail(q)[i] = q[i + 1] /\ i \in Nat
    BY <1>1
  <2> SUFFICES ASSUME NEW i \in 1 .. Len(Tail(q)), NEW j \in 1 .. Len(Tail(q)), i < j
               PROVE  f[Tail(q)[i]] < f[Tail(q)[j]]
    BY DEF Ascending
  <2>2. i + 1 < j + 1
    BY <2>1
  <2> QED BY <2>1, <2>2 DEF Ascending
<1>2. ASSUME NEW g \in [Mbufs -> Nat], NEW m \in Mbufs, NEW k \in Nat, \A x \in Mbufs : f[x] < k,
             m \notin ToSet(q), g = [f EXCEPT ![m] = k]
      PROVE  Ascending(Append(q, m), g)
  <2> DEFINE u == Append(q, m)
  <2>1. /\ Len(u) = Len(q) + 1 /\ Len(q) \in Nat
        /\ \A i \in 1 .. Len(u) : (i \in 1 .. Len(q) /\ u[i] = q[i]) \/ (i = Len(q) + 1 /\ u[i] = m)
    OBVIOUS
  <2>2. \A i \in 1 .. Len(q) : q[i] \in Mbufs /\ q[i] # m
    BY <1>2 DEF ToSet
  <2>3. g[m] = k /\ \A x \in Mbufs : x # m => g[x] = f[x]
    BY <1>2
  <2> HIDE DEF u
  <2> SUFFICES ASSUME NEW i \in 1 .. Len(u), NEW j \in 1 .. Len(u), i < j PROVE g[u[i]] < g[u[j]]
    BY DEF Ascending, u
  <2>4. i \in 1 .. Len(q) /\ u[i] = q[i]
    BY <2>1
  <2>5. CASE j \in 1 .. Len(q) /\ u[j] = q[j]
    BY <2>2, <2>3, <2>4, <2>5 DEF Ascending
  <2>6. CASE u[j] = m
    BY <1>2, <2>2, <2>3, <2>4, <2>6
  <2> QED BY <2>1, <2>5, <2>6
<1> QED BY <1>1, <1>2

\* What the ring holds and, behind it, what still waits in tx_batch.
Queued == tx_ring \o tx_batch

\* The frames on their way to the wire ascend and none has a number yet to be
\* given.
TxOrder == Ascending(Queued, frame) /\ \A x \in Mbufs : frame[x] <= tx_no

\* The ring followed by the batch is what is being sent.
LEMMA QueuedType ==
    ASSUME TypeOK
    PROVE  /\ Queued \in Seq(Mbufs) /\ ToSet(Queued) = Sending
           /\ TxInOrder <=> Ascending(Queued, frame)
<1>1. tx_ring \in Seq(Mbufs) /\ tx_batch \in Seq(Mbufs)
    BY DEF TypeOK
<1>2. Queued \in Seq(Mbufs) /\ ToSet(Queued) = Sending
    BY <1>1, Joined DEF Queued, Sending
<1>3. DOMAIN Queued = 1 .. Len(Queued)
    BY <1>2
<1>4. TxInOrder <=> Ascending(Queued, frame)
    BY <1>3 DEF TxInOrder, Ascending, Queued
<1> QED BY <1>2, <1>4

\* An mbuf of the pool is queued last, with the next number.
LEMMA EmitInOrder ==
    ASSUME Safe, TxOrder, NEW m \in pool, Queued' = Append(Queued, m),
           tx_no' = tx_no + 1, frame' = [frame EXCEPT ![m] = tx_no + 1]
    PROVE  TxOrder'
<1>1. /\ Queued \in Seq(Mbufs) /\ ToSet(Queued) = Sending /\ m \in Mbufs
      /\ frame \in [Mbufs -> Nat] /\ tx_no \in Nat /\ m \notin ToSet(Queued)
    BY QueuedType DEF Safe, TypeOK, OwnedOnce, Disjoint
<1>2. PICK k \in Nat : k = tx_no + 1
    BY <1>1
<1>3. frame' = [frame EXCEPT ![m] = k] /\ frame' \in [Mbufs -> Nat] /\ tx_no' = k
    BY <1>1, <1>2
<1>4. \A x \in Mbufs : frame[x] \in Nat /\ frame[x] < k
    BY <1>1, <1>2 DEF TxOrder
<1>5. Ascending(Append(Queued, m), frame')
    BY <1>1, <1>3, <1>4, AscendingMoves DEF TxOrder
<1>6. \A x \in Mbufs : frame'[x] <= tx_no'
    BY <1>1, <1>3, <1>4
<1>7. Ascending(Queued, frame)'
    BY <1>5 DEF Ascending
<1> QED BY <1>6, <1>7 DEF TxOrder

\* Every step keeps the order of the frames to be sent.
LEMMA OrderStep ==
    ASSUME Safe, TxOrder, [Next]_vars
    PROVE  TxOrder'
<1> USE DEF rings, numbers
<1>1. /\ tx_ring \in Seq(Mbufs) /\ tx_batch \in Seq(Mbufs) /\ frame \in [Mbufs -> Nat]
      /\ Queued \in Seq(Mbufs) /\ Ascending(Queued, frame) /\ TypeOK
    BY QueuedType DEF Safe, TypeOK, TxOrder
<1>2. ASSUME Queued' = Queued, UNCHANGED <<frame, tx_no>> PROVE TxOrder'
    BY <1>2 DEF TxOrder, Ascending
<1>3. ASSUME NEW n \in Nat, n <= Len(tx_batch), Sent(n) PROVE Queued' = Queued
    BY <1>1, <1>3, Resplit DEF Sent, Queued
<1>4. CASE NicTransmit
    <2>1. tx_ring # <<>> /\ tx_ring' = Tail(tx_ring) /\ UNCHANGED <<tx_batch, frame, tx_no>>
        BY <1>4 DEF NicTransmit
    <2>2. /\ Head(tx_ring) \in Mbufs /\ Len(Queued) = Len(tx_ring) + Len(tx_batch)
          /\ Len(tx_ring) \in Nat \ {0} /\ Len(tx_batch) \in Nat
        BY <1>1, <2>1 DEF Queued
    <2>3. Queued' = Tail(Queued) /\ Queued # <<>>
        <3>1. Tail(tx_ring) \o tx_batch = Tail(tx_ring \o tx_batch)
            BY <1>1, <2>1, <2>2, JoinedEnds
        <3>2. Len(Queued) # 0
            BY <2>2
        <3> QED BY <1>1, <2>1, <3>1, <3>2 DEF Queued
    <2>4. Ascending(Queued', frame)
        BY <1>1, <2>3, AscendingMoves
    <2> QED BY <2>1, <2>4 DEF TxOrder, Ascending
<1>5. CASE Receive
    <2>1. Sent(TxSent) /\ UNCHANGED <<frame, tx_no>>
        BY <1>5 DEF Receive, FlushTx
    <2>2. TxSent \in Nat /\ TxSent <= Len(tx_batch)
        BY <1>1, TxSentBounds
    <2> QED BY <1>2, <1>3, <2>1, <2>2
<1>6. CASE TransmitNothing
    <2>1. Sent(Flushed) /\ UNCHANGED <<frame, tx_no>>
        BY <1>6 DEF TransmitNothing
    <2>2. Flushed \in Nat /\ Flushed <= Len(tx_batch)
        BY <1>1, TxSentBounds
    <2> QED BY <1>2, <1>3, <2>1, <2>2
<1>7. ASSUME NEW m \in Mbufs, Transmit(m) PROVE TxOrder'
    <2> DEFINE n == Flushed
               rest == SubSeq(tx_batch, n + 1, Len(tx_batch))
               ring == tx_ring \o SubSeq(tx_batch, 1, n)
    <2>1. /\ m \in pool /\ tx_ring' = ring /\ tx_batch' = Append(rest, m)
          /\ tx_no' = tx_no + 1 /\ frame' = [frame EXCEPT ![m] = tx_no + 1]
        BY <1>7 DEF Transmit
    <2>2. n \in Nat /\ n <= Len(tx_batch)
        BY <1>1, TxSentBounds
    <2> HIDE DEF n
    <2>3. ring \o rest = Queued
        BY <1>1, <2>2, Resplit DEF Queued
    <2>4. ring \in Seq(Mbufs) /\ rest \in Seq(Mbufs)
        BY <1>1, <2>2, Cut, Joined
    <2> HIDE DEF ring, rest
    <2>5. ring \o Append(rest, m) = Append(Queued, m)
        BY <2>3, <2>4, JoinedEnds
    <2>6. Queued' = Append(Queued, m)
        BY <2>1, <2>5 DEF Queued
    <2> QED BY <2>1, <2>6, EmitInOrder
<1>8. ASSUME NEW m \in Mbufs, ConsumeAnswering(m) PROVE TxOrder'
    <2>1. CASE UNCHANGED <<tx_batch, tx_no, frame>>
        BY <1>2, <1>8, <2>1 DEF ConsumeAnswering, Queued
    <2>2. CASE tx_batch' = Append(tx_batch, m) /\ tx_no' = tx_no + 1 /\ frame' = [frame EXCEPT ![m] = tx_no + 1]
        <3>1. m \in pool /\ tx_ring' = tx_ring
            BY <1>8 DEF ConsumeAnswering
        <3>2. tx_ring \o Append(tx_batch, m) = Append(Queued, m)
            BY <1>1, JoinedEnds DEF Queued
        <3>3. Queued' = Append(Queued, m)
            BY <2>2, <3>1, <3>2 DEF Queued
        <3> QED BY <2>2, <3>1, <3>3, EmitInOrder
    <2> QED BY <1>8, <2>1, <2>2 DEF ConsumeAnswering
<1>9. CASE DropDevice
    <2>1. tx_batch' = <<>> /\ UNCHANGED <<tx_ring, frame, tx_no>>
        BY <1>9 DEF DropDevice
    <2>2. Queued' = tx_ring
        BY <1>1, <2>1 DEF Queued
    <2>3. /\ Len(tx_ring) <= Len(Queued) /\ Len(tx_ring) \in Nat /\ Len(Queued) \in Nat
          /\ \A i \in 1 .. Len(tx_ring) : Queued[i] = tx_ring[i]
        BY <1>1 DEF Queued
    <2>4. Ascending(tx_ring, frame)
        <3> SUFFICES ASSUME NEW i \in 1 .. Len(tx_ring), NEW j \in 1 .. Len(tx_ring), i < j
                     PROVE  frame[tx_ring[i]] < frame[tx_ring[j]]
            BY DEF Ascending
        <3>1. i \in 1 .. Len(Queued) /\ j \in 1 .. Len(Queued)
            BY <2>3
        <3>2. frame[Queued[i]] < frame[Queued[j]]
            BY <1>1, <3>1 DEF Ascending
        <3> QED BY <2>3, <3>2
    <2>5. Ascending(Queued, frame)'
        BY <2>1, <2>2, <2>4 DEF Ascending
    <2> QED BY <2>1, <2>5 DEF TxOrder
<1>10. ASSUME UNCHANGED <<tx_ring, tx_batch, frame, tx_no>> PROVE TxOrder'
    BY <1>2, <1>10 DEF Queued
<1> QED BY <1>4, <1>5, <1>6, <1>7, <1>8, <1>9, <1>10
        DEF Next, Consume, NicReceive, OthersAlloc, OthersFree, ConsumeSilently, ConsumeAnswerLost,
            InjectRxPacket, vars

\* The NIC is given the frames in the order smoltcp emitted them, for any batch,
\* burst and ring sizes: what a full ring leaves of a burst stays ahead of what
\* transmit() and the answers of receive() push later (flush_tx).
THEOREM FramesInOrder == Spec => []TxInOrder
<1>1. Init => Safe /\ TxOrder
    <2>1. Init => Safe
        BY SafeInitially
    <2>2. Init => Queued = <<>> /\ Len(<<>>) = 0 /\ \A x \in Mbufs : frame[x] <= tx_no
        BY DEF Init, Queued
    <2> QED BY <2>1, <2>2 DEF TxOrder, Ascending
<1>2. Safe /\ TxOrder /\ [Next]_vars => (Safe /\ TxOrder)'
    BY SafeStep, OrderStep
<1>3. Safe /\ TxOrder => TxInOrder
    BY QueuedType DEF Safe, TxOrder
<1> QED BY <1>1, <1>2, <1>3, PTL DEF Spec

\* What a step may do to the frames smoltcp has emitted: a frame stays queued in
\* its mbuf, and does not go back from the ring to the batch, or the NIC takes it
\* as the first of the ring, or it is dropped with the device; and a receive()
\* takes frames off a batch that is not empty unless the ring is full.
EmittedStep ==
    /\ \A m \in Sending :
          \/ /\ m \in Sending' /\ frame'[m] = frame[m]
             /\ m \in ToSet(tx_ring) => m \in ToSet(tx_ring')
          \/ tx_ring # <<>> /\ m = Head(tx_ring) /\ tx_ring' = Tail(tx_ring)
          \/ m \in ToSet(tx_batch) /\ status' = "dropped"
    /\ Receive => \/ Len(tx_batch') < Len(tx_batch)
                  \/ tx_batch = <<>> \/ Len(tx_ring) = TxRingSize

\* The mbufs of a flush: what is in the ring stays there.
LEMMA RingGrows ==
    ASSUME TypeOK, OwnedOnce, NEW n \in Nat, n <= Len(tx_batch),
           Len(tx_ring) + n <= TxRingSize
    PROVE  \E ring, batch \in Seq(Mbufs) :
           /\ ring = tx_ring \o SubSeq(tx_batch, 1, n)
           /\ batch = SubSeq(tx_batch, n + 1, Len(tx_batch))
           /\ ToSet(batch) \cup ToSet(ring) = Sending
           /\ ToSet(tx_ring) \subseteq ToSet(ring)
           /\ Len(batch) = Len(tx_batch) - n
<1>1. PICK ring \in Seq(Mbufs), batch \in Seq(Mbufs) :
           /\ ring = tx_ring \o SubSeq(tx_batch, 1, n)
           /\ batch = SubSeq(tx_batch, n + 1, Len(tx_batch))
           /\ Len(batch) = Len(tx_batch) - n
           /\ ToSet(batch) \cup ToSet(ring) = Sending
    BY FlushMoves
<1>2. PICK p : p = SubSeq(tx_batch, 1, n)
    OBVIOUS
<1>3. tx_ring \in Seq(Mbufs) /\ p \in Seq(Mbufs)
    BY <1>2, Cut DEF TypeOK
<1>4. ToSet(ring) = ToSet(tx_ring) \cup ToSet(p)
    <2>1. ToSet(tx_ring \o p) = ToSet(tx_ring) \cup ToSet(p)
        BY <1>3, Joined, Zenon
    <2> QED BY <1>1, <1>2, <2>1
<1> QED BY <1>1, <1>4

\* A step that queues m behind what it flushed.
LEMMA QueuedKept ==
    ASSUME Safe, NEW m \in pool, frame' = [frame EXCEPT ![m] = tx_no + 1],
           Sending \subseteq Sending', ToSet(tx_ring) \subseteq ToSet(tx_ring')
    PROVE  \A x \in Sending : /\ x \in Sending' /\ frame'[x] = frame[x]
                              /\ x \in ToSet(tx_ring) => x \in ToSet(tx_ring')
<1>1. m \notin Sending /\ m \in Mbufs /\ frame \in [Mbufs -> Nat]
    BY DEF Safe, TypeOK, OwnedOnce, Disjoint
<1>2. Sending \subseteq Mbufs
    BY DEF Safe, NoMbufLost
<1> QED BY <1>1, <1>2

\* Once smoltcp has emitted a frame, its mbuf is neither rewritten nor freed nor
\* reused until the NIC has sent it, for any sizes: nobody takes frames out of
\* tx_batch but flush_tx, for the ring, and the drop of the device.  And every
\* receive() makes room unless the ring is full, which is the safety half of
\* TxFlushed: what is left to fairness is the reactor's loop and the NIC.
THEOREM EmittedFramesGoOut ==
    ASSUME BurstSize # 0
    PROVE  Spec => [][EmittedStep]_vars
<1>1. ASSUME Safe, [Next]_vars PROVE [EmittedStep]_vars
  <2> USE DEF rings, numbers
  <2>0. /\ TypeOK /\ OwnedOnce /\ tx_ring \in Seq(Mbufs) /\ tx_batch \in Seq(Mbufs)
        /\ frame \in [Mbufs -> Nat] /\ Sending = ToSet(tx_batch) \cup ToSet(tx_ring)
        /\ Len(tx_ring) \in Nat /\ Len(tx_ring) <= TxRingSize /\ Len(tx_batch) \in Nat
      BY <1>1 DEF Safe, TypeOK, Sending
  <2>1. ASSUME Receive PROVE EmittedStep
    <3>1. /\ tx_ring' = tx_ring \o SubSeq(tx_batch, 1, TxSent)
          /\ tx_batch' = SubSeq(tx_batch, TxSent + 1, Len(tx_batch)) /\ frame' = frame
        BY <2>1 DEF Receive, FlushTx, Sent
    <3>2. TxSent \in Nat /\ TxSent <= Len(tx_batch) /\ Len(tx_ring) + TxSent <= TxRingSize
        BY <2>0, TxSentBounds
    <3>3. PICK ring \in Seq(Mbufs), batch \in Seq(Mbufs) :
           /\ ring = tx_ring \o SubSeq(tx_batch, 1, TxSent)
           /\ batch = SubSeq(tx_batch, TxSent + 1, Len(tx_batch))
           /\ ToSet(batch) \cup ToSet(ring) = Sending
           /\ ToSet(tx_ring) \subseteq ToSet(ring) /\ Len(batch) = Len(tx_batch) - TxSent
        BY <2>0, <3>2, RingGrows
    <3>4. tx_ring' = ring /\ tx_batch' = batch
        BY <3>1, <3>3
    <3>5. tx_batch = <<>> \/ Len(tx_ring) = TxRingSize \/ TxSent > 0
        BY <2>0, SizesAssumption DEF TxSent, Least
    <3>6. TxSent > 0 => Len(tx_batch') < Len(tx_batch)
        BY <2>0, <3>2, <3>3, <3>4
    <3>7. Sending' = Sending /\ ToSet(tx_ring) \subseteq ToSet(tx_ring')
        BY <3>3, <3>4 DEF Sending
    <3> QED BY <3>1, <3>5, <3>6, <3>7 DEF EmittedStep
  <2>2. ASSUME ~Receive, Sending' = Sending, ToSet(tx_ring) \subseteq ToSet(tx_ring'),
               frame' = frame
        PROVE  EmittedStep
      BY <2>2 DEF EmittedStep
  <2>3. ASSUME NicTransmit, ~Receive PROVE EmittedStep
    <3>1. tx_ring # <<>> /\ tx_ring' = Tail(tx_ring) /\ UNCHANGED <<tx_batch, frame>>
        BY <2>3 DEF NicTransmit
    <3>2. ToSet(tx_ring) = {Head(tx_ring)} \cup ToSet(Tail(tx_ring))
        BY <2>0, <3>1, Headed
    <3> QED BY <2>0, <2>3, <3>1, <3>2 DEF EmittedStep, Sending
  <2>4. ASSUME TransmitNothing, ~Receive PROVE EmittedStep
    <3>1. /\ tx_ring' = tx_ring \o SubSeq(tx_batch, 1, Flushed)
          /\ tx_batch' = SubSeq(tx_batch, Flushed + 1, Len(tx_batch)) /\ frame' = frame
        BY <2>4 DEF TransmitNothing, Sent
    <3>2. Flushed \in Nat /\ Flushed <= Len(tx_batch) /\ Len(tx_ring) + Flushed <= TxRingSize
        BY <2>0, TxSentBounds
    <3>3. Sending' = Sending /\ ToSet(tx_ring) \subseteq ToSet(tx_ring')
        BY <2>0, <3>1, <3>2, RingGrows DEF Sending
    <3> QED BY <2>2, <2>4, <3>1, <3>3
  <2>5. ASSUME NEW m \in Mbufs, Transmit(m), ~Receive PROVE EmittedStep
    <3>1. Flushed \in Nat /\ Flushed <= Len(tx_batch) /\ Len(tx_ring) + Flushed <= TxRingSize
        BY <2>0, TxSentBounds
    <3>2. PICK ring \in Seq(Mbufs), batch \in Seq(Mbufs) :
           /\ ring = tx_ring \o SubSeq(tx_batch, 1, Flushed)
           /\ batch = SubSeq(tx_batch, Flushed + 1, Len(tx_batch))
           /\ ToSet(batch) \cup ToSet(ring) = Sending
           /\ ToSet(tx_ring) \subseteq ToSet(ring)
        BY <2>0, <3>1, RingGrows
    <3>3. /\ m \in pool /\ tx_ring' = ring /\ tx_batch' = Append(batch, m)
          /\ frame' = [frame EXCEPT ![m] = tx_no + 1]
        BY <2>5, <3>2 DEF Transmit
    <3>4. ToSet(Append(batch, m)) = ToSet(batch) \cup {m}
        BY Appended
    <3>5. Sending \subseteq Sending' /\ ToSet(tx_ring) \subseteq ToSet(tx_ring')
        BY <3>2, <3>3, <3>4 DEF Sending
    <3> QED BY <1>1, <2>5, <3>3, <3>5, QueuedKept DEF EmittedStep
  <2>6. ASSUME NEW m \in Mbufs, ConsumeAnswering(m), ~Receive PROVE EmittedStep
    <3>1. CASE UNCHANGED <<tx_batch, tx_no, frame>>
      <4>1. Sending' = Sending /\ tx_ring' = tx_ring
          BY <2>6, <3>1 DEF ConsumeAnswering, Sending
      <4> QED BY <2>2, <2>6, <3>1, <4>1
    <3>2. CASE tx_batch' = Append(tx_batch, m) /\ frame' = [frame EXCEPT ![m] = tx_no + 1]
      <4>1. m \in pool /\ tx_ring' = tx_ring
          BY <2>6 DEF ConsumeAnswering
      <4>2. ToSet(Append(tx_batch, m)) = ToSet(tx_batch) \cup {m}
          BY <2>0, Appended
      <4>3. Sending \subseteq Sending' /\ ToSet(tx_ring) \subseteq ToSet(tx_ring')
          BY <2>0, <3>2, <4>1, <4>2 DEF Sending
      <4> QED BY <1>1, <2>6, <3>2, <4>1, <4>3, QueuedKept DEF EmittedStep
    <3> QED BY <2>6, <3>1, <3>2 DEF ConsumeAnswering
  <2>7. ASSUME DropDevice, ~Receive PROVE EmittedStep
    <3>1. status' = "dropped" /\ tx_ring' = tx_ring /\ frame' = frame
        BY <2>7 DEF DropDevice
    <3> QED BY <2>0, <2>7, <3>1 DEF EmittedStep, Sending
  <2>8. ASSUME UNCHANGED <<tx_ring, tx_batch, frame>>, ~Receive PROVE EmittedStep
      BY <2>2, <2>8 DEF Sending
  <2> QED BY <1>1, <2>1, <2>3, <2>4, <2>5, <2>6, <2>7, <2>8
          DEF Next, Consume, NicReceive, OthersAlloc, OthersFree, ConsumeSilently,
              ConsumeAnswerLost, InjectRxPacket
<1> QED BY <1>1, SafeInitially, SafeStep, PTL DEF Spec

-----------------------------------------------------------------------------
(* The data of one mbuf.  M!Inv, the types with the bounds, is inductive:  *)
(* no length that is cast to u16 reaches 2^16, as the data stays inside    *)
(* the data room and a data room is below 2^16.                            *)

\* A length below 2^16 is the same after a cast to u16 or u32.
LEMMA NoTruncation ==
  ASSUME NEW m \in Nat, m < M!U16
  PROVE  m % M!U16 = m /\ m % M!U32 = m
  BY DEF M!U16, M!U32

\* A new mbuf has its data window in the buffer.
LEMMA MbufInit == ASSUME M!Parameters, M!Init PROVE M!Inv
  BY DEF M!Parameters, M!Init, M!Inv, M!TypeOK, M!InBuffer

\* Every operation on an mbuf keeps its window in the buffer.
LEMMA MbufNext == ASSUME M!Parameters, M!Inv, [M!Next]_M!vars PROVE M!Inv'
<1> USE DEF M!Parameters, M!Inv, M!TypeOK, M!InBuffer
<1>0. M!FreshOff \in Nat /\ M!FreshOff <= DataRoom
  BY DEF M!FreshOff
<1>1. CASE M!alloc BY <1>0, <1>1 DEF M!alloc
<1>2. CASE M!into_raw BY <1>2 DEF M!into_raw
<1>3. CASE M!from_raw BY <1>3 DEF M!from_raw
<1>4. CASE M!tx_one BY <1>4 DEF M!tx_one
<1>5. CASE M!TxDone BY <1>5 DEF M!TxDone
<1>6. CASE M!drop BY <1>6 DEF M!drop
<1>7. CASE M!reset BY <1>0, <1>7 DEF M!reset
<1>8. ASSUME NEW n \in Lens, M!rx(n) PROVE M!Inv'
  BY <1>0, <1>8 DEF M!rx
<1>9. ASSUME NEW n \in Lens, M!append(n) PROVE M!Inv'
  <2>1. n \in Nat
    OBVIOUS
  <2>2. dlen + n \in Nat /\ dlen + n < M!U16
    BY <1>9, <2>1 DEF M!append, M!tailroom, M!U16
  <2>3. (dlen + n) % M!U16 = dlen + n /\ (dlen + n) % M!U32 = dlen + n
    BY ONLY <2>2, NoTruncation
  <2>4. dlen' = dlen + n /\ plen' = dlen + n
    BY <1>9, <2>3 DEF M!append
  <2> QED BY <1>9, <2>1, <2>4 DEF M!append, M!tailroom
<1>10. ASSUME NEW n \in Lens, M!prepend(n) PROVE M!Inv'
  <2>1. n \in Nat
    OBVIOUS
  <2>2. dlen + n \in Nat /\ dlen + n < M!U16
    BY <1>10, <2>1 DEF M!prepend, M!headroom, M!U16
  <2>3. (dlen + n) % M!U16 = dlen + n /\ (dlen + n) % M!U32 = dlen + n
    BY ONLY <2>2, NoTruncation
  <2>4. dlen' = dlen + n /\ plen' = dlen + n
    BY <1>10, <2>3 DEF M!prepend
  <2> QED BY <1>10, <2>1, <2>4 DEF M!prepend, M!headroom
<1>11. ASSUME NEW n \in Lens, M!adj(n) PROVE M!Inv'
  BY <1>11 DEF M!adj
<1>12. ASSUME NEW n \in Lens, M!trim(n) PROVE M!Inv'
  BY <1>12 DEF M!trim
<1>13. ASSUME NEW n \in Lens, M!extend(n) PROVE M!Inv'
  <2>1. n \in Nat
    OBVIOUS
  <2>2. dlen + n \in Nat /\ dlen + n < M!U16
    BY <1>13, <2>1 DEF M!extend, M!tailroom, M!U16
  <2>3. (dlen + n) % M!U16 = dlen + n /\ (dlen + n) % M!U32 = dlen + n
    BY ONLY <2>2, NoTruncation
  <2>4. dlen' = dlen + n /\ plen' = dlen + n
    BY <1>13, <2>3 DEF M!extend
  <2> QED BY <1>13, <2>1, <2>4 DEF M!extend, M!tailroom
<1>14. ASSUME NEW n \in Lens, M!shrink(n) PROVE M!Inv'
  <2> DEFINE m == M!saturating_sub(dlen, n)
  <2>1. n \in Nat
    OBVIOUS
  <2>2. m \in Nat /\ m <= dlen
    BY <2>1 DEF M!saturating_sub
  <2>3. m < M!U16
    BY <2>2 DEF M!U16
  <2> HIDE DEF m
  <2>4. m % M!U16 = m /\ m % M!U32 = m
    BY ONLY <2>2, <2>3, NoTruncation
  <2>5. dlen' = m /\ plen' = m
    BY <1>14, <2>4 DEF M!shrink, m
  <2> QED BY <1>14, <2>2, <2>5 DEF M!shrink
<1>15. ASSUME NEW n \in Lens, M!copy_from_slice(n) PROVE M!Inv'
  BY <1>0, <1>15 DEF M!copy_from_slice
<1>16. CASE UNCHANGED M!vars BY <1>16 DEF M!vars
<1> QED
  BY <1>1, <1>2, <1>3, <1>4, <1>5, <1>6, <1>7, <1>8, <1>9, <1>10, <1>11,
     <1>12, <1>13, <1>14, <1>15, <1>16 DEF M!Next

\* No sequence of calls on an Mbuf moves its data out of its buffer or returns
\* a slice that is not in it (mbuf.rs:118-213).
THEOREM DataStaysInBuffer == ASSUME M!Parameters PROVE M!Spec => []M!InBuffer
<1>1. M!Init => M!Inv BY MbufInit
<1>2. M!Inv /\ [M!Next]_M!vars => M!Inv' BY MbufNext
<1>3. M!Inv => M!InBuffer BY DEF M!Inv
<1> QED BY <1>1, <1>2, <1>3, PTL DEF M!Spec
=============================================================================
