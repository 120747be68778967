---------------------------- MODULE RelayProofs -----------------------------
(***************************************************************************)
(* The two relays of the bridge, for any channel and buffer sizes and any  *)
(* number of tasks: what comes out of them is what went in, in order, and  *)
(* the end of a TCP stream is seen only at its end.                        *)
(*                                                                         *)
(* The argument: the bytes of one direction, wherever they are, are runs   *)
(* of consecutive numbers that follow each other from the one end to the   *)
(* other (BytesIn, BytesOut), and the datagrams, some of which are lost,   *)
(* ascend (UdpIn, UdpOut).  A run stays whole until what is behind it can  *)
(* no longer be delivered: the task has gone, its socket is closed or the  *)
(* stream was dropped.                                                     *)
(***************************************************************************)
EXTENDS BridgeRelay, RxState, Integers, TLAPS

\* The UDP relay, which shares the names of the channels and of the buffers.
CONSTANTS Tasks, Cap, TxPackets, RxPackets

VARIABLES lock, pc, connected, acquiring, open, accepted, wire, arrived

U == INSTANCE UdpRelay

-----------------------------------------------------------------------------
(* Datagrams on their way through three buffers.                           *)

Ascending(s)  == \A i, j \in 1 .. Len(s) : i < j => s[i] < s[j]
Below(s, t)   == \A i \in 1 .. Len(s), j \in 1 .. Len(t) : s[i] < t[j]
Within(lo, s, hi) == \A i \in 1 .. Len(s) : lo < s[i] /\ s[i] <= hi

\* p, then q, then r hold numbers after lo and up to hi, in order.
Chain(lo, p, q, r, hi) ==
    /\ lo \in Nat /\ hi \in Nat /\ lo <= hi /\ p \in Seq(Nat) /\ q \in Seq(Nat) /\ r \in Seq(Nat)
    /\ Ascending(p) /\ Ascending(q) /\ Ascending(r)
    /\ Below(p, q) /\ Below(p, r) /\ Below(q, r)
    /\ Within(lo, p, hi) /\ Within(lo, q, hi) /\ Within(lo, r, hi)

Before(s, x) == \A i \in 1 .. Len(s) : s[i] < x
After(x, s)  == \A i \in 1 .. Len(s) : x < s[i]

\* What appending a number keeps of the order.
LEMMA PutLast ==
    ASSUME NEW s \in Seq(Nat), NEW x \in Nat, NEW u, u = Append(s, x)
    PROVE  /\ u \in Seq(Nat)
           /\ Ascending(s) /\ Before(s, x) => Ascending(u)
           /\ \A v \in Seq(Nat) : Below(v, s) /\ Before(v, x) => Below(v, u)
           /\ \A v \in Seq(Nat) : Below(s, v) /\ After(x, v) => Below(u, v)
           /\ \A lo, hi \in Nat : Within(lo, s, hi) /\ lo < x /\ x <= hi => Within(lo, u, hi)
<1>1. /\ u \in Seq(Nat) /\ Len(u) = Len(s) + 1 /\ Len(s) \in Nat
      /\ \A i \in 1 .. Len(u) : (i \in 1 .. Len(s) /\ u[i] = s[i]) \/ (i = Len(s) + 1 /\ u[i] = x)
  OBVIOUS
<1>2. \A i \in 1 .. Len(s) : s[i] \in Nat
  OBVIOUS
<1>3. ASSUME Ascending(s), Before(s, x) PROVE Ascending(u)
  <2> SUFFICES ASSUME NEW i \in 1 .. Len(u), NEW j \in 1 .. Len(u), i < j PROVE u[i] < u[j]
    BY DEF Ascending
  <2>1. CASE j \in 1 .. Len(s) /\ u[j] = s[j]
    <3>1. i \in 1 .. Len(s) /\ u[i] = s[i]
      BY <1>1, <2>1
    <3> QED BY <1>3, <2>1, <3>1 DEF Ascending
  <2>2. CASE j = Len(s) + 1 /\ u[j] = x
    <3>1. i \in 1 .. Len(s) /\ u[i] = s[i]
      BY <1>1, <2>2
    <3> QED BY <1>3, <2>2, <3>1 DEF Before
  <2> QED BY <1>1, <2>1, <2>2
<1>4. ASSUME NEW v \in Seq(Nat), Below(v, s), Before(v, x) PROVE Below(v, u)
  BY <1>1, <1>4 DEF Below, Before
<1>5. ASSUME NEW v \in Seq(Nat), Below(s, v), After(x, v) PROVE Below(u, v)
  BY <1>1, <1>5 DEF Below, After
<1>6. ASSUME NEW lo \in Nat, NEW hi \in Nat, Within(lo, s, hi), lo < x, x <= hi
      PROVE  Within(lo, u, hi)
  BY <1>1, <1>6 DEF Within
<1> QED BY <1>1, <1>3, <1>4, <1>5, <1>6

\* What taking the first number away keeps of the order, and where it stood.
LEMMA TakenFirst ==
    ASSUME NEW s \in Seq(Nat), s # <<>>, NEW t, t = Tail(s), NEW x, x = Head(s)
    PROVE  /\ t \in Seq(Nat) /\ x \in Nat
           /\ Ascending(s) => Ascending(t) /\ After(x, t)
           /\ \A v \in Seq(Nat) : Below(v, s) => Below(v, t) /\ Before(v, x)
           /\ \A v \in Seq(Nat) : Below(s, v) => Below(t, v) /\ After(x, v)
           /\ \A lo, hi \in Nat : Within(lo, s, hi) => Within(lo, t, hi) /\ lo < x /\ x <= hi
<1>1. /\ t \in Seq(Nat) /\ x \in Nat /\ 1 \in 1 .. Len(s) /\ x = s[1]
      /\ \A i \in 1 .. Len(t) : i + 1 \in 1 .. Len(s) /\ 1 < i + 1 /\ t[i] = s[i + 1]
  OBVIOUS
<1>2. ASSUME Ascending(s) PROVE Ascending(t) /\ After(x, t)
  <2>1. ASSUME NEW i \in 1 .. Len(t), NEW j \in 1 .. Len(t), i < j PROVE t[i] < t[j]
    <3>1. i + 1 < j + 1
      BY <2>1
    <3> QED BY <1>1, <1>2, <3>1 DEF Ascending
  <2>2. ASSUME NEW i \in 1 .. Len(t) PROVE x < t[i]
    BY <1>1, <1>2 DEF Ascending
  <2> QED BY <2>1, <2>2 DEF Ascending, After
<1>3. ASSUME NEW v \in Seq(Nat), Below(v, s) PROVE Below(v, t) /\ Before(v, x)
  BY <1>1, <1>3 DEF Below, Before
<1>4. ASSUME NEW v \in Seq(Nat), Below(s, v) PROVE Below(t, v) /\ After(x, v)
  BY <1>1, <1>4 DEF Below, After
<1>5. ASSUME NEW lo \in Nat, NEW hi \in Nat, Within(lo, s, hi)
      PROVE  Within(lo, t, hi) /\ lo < x /\ x <= hi
  BY <1>1, <1>5 DEF Within
<1> QED BY <1>1, <1>2, <1>3, <1>4, <1>5

\* Bounds of an ascending sequence may be widened above and tightened below.
LEMMA Bounded ==
    ASSUME NEW s \in Seq(Nat), NEW lo \in Nat, NEW hi \in Nat, Within(lo, s, hi)
    PROVE  /\ Within(lo, s, hi + 1) /\ Before(s, hi + 1)
           /\ \A x \in Nat : After(x, s) => Within(x, s, hi)
  BY DEF Within, Before, After

\* One more number goes in, or is lost at once.
LEMMA ChainGrows ==
    ASSUME NEW lo, NEW p, NEW q, NEW r, NEW hi, Chain(lo, p, q, r, hi)
    PROVE  /\ Chain(lo, p, q, r, hi + 1)
           /\ Chain(lo, p, q, Append(r, hi + 1), hi + 1)
<1> DEFINE s == Append(r, hi + 1)
<1>1. /\ Chain(lo, p, q, r, hi + 1)
      /\ Before(p, hi + 1) /\ Before(q, hi + 1) /\ Before(r, hi + 1)
  BY Bounded DEF Chain
<1>2. hi + 1 \in Nat /\ lo < hi + 1 /\ hi + 1 <= hi + 1
  BY DEF Chain
<1>3. s = Append(r, hi + 1)
  OBVIOUS
<1> HIDE DEF s
<1>4. Chain(lo, p, q, s, hi + 1)
  BY <1>1, <1>2, <1>3, PutLast DEF Chain
<1> QED BY <1>1, <1>3, <1>4

\* The first number of a buffer goes on to the next, or is lost.
LEMMA ChainMovesLast ==
    ASSUME NEW lo, NEW p, NEW q, NEW r, NEW hi, Chain(lo, p, q, r, hi), r # <<>>
    PROVE  /\ Chain(lo, p, q, Tail(r), hi)
           /\ Chain(lo, p, Append(q, Head(r)), Tail(r), hi)
<1> DEFINE x == Head(r)
           t == Tail(r)
           s == Append(q, x)
<1>1. /\ Chain(lo, p, q, t, hi) /\ x \in Nat /\ lo < x /\ x <= hi
      /\ Before(p, x) /\ Before(q, x) /\ After(x, t)
  BY TakenFirst DEF Chain
<1> HIDE DEF x, t
<1>2. s = Append(q, x)
  OBVIOUS
<1> HIDE DEF s
<1>3. Chain(lo, p, s, t, hi)
  BY <1>1, <1>2, PutLast DEF Chain
<1> QED BY <1>1, <1>2, <1>3 DEF x, t

\* The same from the middle buffer to the first.
LEMMA ChainMovesMiddle ==
    ASSUME NEW lo, NEW p, NEW q, NEW r, NEW hi, Chain(lo, p, q, r, hi), q # <<>>
    PROVE  /\ Chain(lo, p, Tail(q), r, hi)
           /\ Chain(lo, Append(p, Head(q)), Tail(q), r, hi)
<1> DEFINE x == Head(q)
           t == Tail(q)
           s == Append(p, x)
<1>1. /\ Chain(lo, p, t, r, hi) /\ x \in Nat /\ lo < x /\ x <= hi
      /\ Before(p, x) /\ After(x, r) /\ After(x, t)
  BY TakenFirst DEF Chain
<1> HIDE DEF x, t
<1>2. s = Append(p, x)
  OBVIOUS
<1> HIDE DEF s
<1>3. Chain(lo, s, t, r, hi)
  BY <1>1, <1>2, PutLast DEF Chain
<1> QED BY <1>1, <1>2, <1>3 DEF x, t

\* The first number of all comes out.
LEMMA ChainDelivers ==
    ASSUME NEW lo, NEW p, NEW q, NEW r, NEW hi, Chain(lo, p, q, r, hi), p # <<>>
    PROVE  /\ Head(p) \in (lo + 1) .. hi
           /\ Chain(Head(p), Tail(p), q, r, hi)
<1> DEFINE x == Head(p)
           t == Tail(p)
<1>1. /\ Chain(lo, t, q, r, hi) /\ x \in Nat /\ lo < x /\ x <= hi
      /\ After(x, t) /\ After(x, q) /\ After(x, r)
  BY TakenFirst DEF Chain
<1> HIDE DEF x, t
<1>2. Chain(x, t, q, r, hi)
  BY <1>1, Bounded DEF Chain
<1>3. x \in (lo + 1) .. hi
  BY <1>1 DEF Chain
<1> QED BY <1>2, <1>3 DEF x, t

\* A buffer is dropped with what it holds.
LEMMA ChainLoses ==
    ASSUME NEW lo, NEW p, NEW q, NEW r, NEW hi, Chain(lo, p, q, r, hi)
    PROVE  /\ Chain(lo, <<>>, q, r, hi) /\ Chain(lo, p, <<>>, r, hi) /\ Chain(lo, p, q, <<>>, hi)
<1>1. <<>> \in Seq(Nat) /\ Len(<<>>) = 0 /\ 1 .. 0 = {}
  OBVIOUS
<1>2. Ascending(<<>>) /\ Within(lo, <<>>, hi) /\ \A s : Below(s, <<>>) /\ Below(<<>>, s)
  BY <1>1 DEF Ascending, Within, Below
<1> QED BY <1>1, <1>2 DEF Chain

-----------------------------------------------------------------------------
(* UdpRelay.                                                               *)

\* From the network to the tasks: what was peeked, the channel, the socket.
UdpIn ==
    /\ Chain(read, peeked, receiver, rxBuf, arrived)
    /\ Len(peeked) <= 1 /\ (told => peeked # <<>>)

\* From the tasks to the network: the socket, the relay, the channel.
UdpOut ==
    /\ Chain(wire, txBuf, held, toLcore, accepted)
    /\ Len(held) <= 1 /\ (relay # "send_to" => held = <<>>)

\* At the start no datagram is on its way.
LEMMA UdpInit == U!Init => UdpIn /\ UdpOut
<1>1. <<>> \in Seq(Nat) /\ Len(<<>>) = 0 /\ 1 .. 0 = {}
  OBVIOUS
<1>2. Ascending(<<>>) /\ Within(0, <<>>, 0) /\ Below(<<>>, <<>>)
  BY <1>1 DEF Ascending, Within, Below
<1>3. Chain(0, <<>>, <<>>, <<>>, 0)
  BY <1>1, <1>2 DEF Chain
<1> QED BY <1>1, <1>3 DEF U!Init, UdpIn, UdpOut

\* A sequence of at most one number.
LEMMA AtMostOne ==
    ASSUME NEW s \in Seq(Nat), Len(s) <= 1, s # <<>>
    PROVE  s = <<Head(s)>> /\ Tail(s) = <<>>
<1>1. Len(s) = 1
  <2>1. PICK k \in Nat : k = Len(s) /\ k # 0 /\ k <= 1
    OBVIOUS
  <2>2. k = 1
    BY <2>1
  <2> QED BY <2>1, <2>2
<1>2. Head(s) = s[1] /\ Head(s) \in Nat
  BY <1>1
<1>3. Len(Tail(s)) = 0 /\ Tail(s) \in Seq(Nat)
  BY <1>1
<1>4. s = <<Head(s)>>
  BY <1>1, <1>2
<1>5. Tail(s) = <<>>
  BY <1>3
<1> QED BY <1>4, <1>5

\* The sequence of one datagram.
LEMMA OneMore ==
    ASSUME NEW x \in Nat
    PROVE  /\ Append(<<>>, x) = <<x>> /\ Head(<<x>>) = x /\ Tail(<<x>>) = <<>>
           /\ <<x>> # <<>> /\ Len(<<x>>) = 1
  OBVIOUS

\* Joining one element is appending it.
LEMMA JoinOne ==
    ASSUME NEW s \in Seq(Nat), NEW x \in Nat
    PROVE  s \o <<x>> = Append(s, x)
  OBVIOUS

\* A reader takes the oldest datagram that is left, newer than the last read.
LEMMA UdpTakes ==
    ASSUME UdpIn, U!TakeDatagram, UNCHANGED <<rxBuf, arrived>>
    PROVE  UdpIn' /\ read' \in (read + 1) .. arrived
<1>1. /\ Chain(read, peeked, receiver, rxBuf, arrived) /\ peeked \in Seq(Nat) /\ receiver \in Seq(Nat)
      /\ Len(peeked) <= 1 /\ told' = FALSE
  BY DEF UdpIn, Chain, U!TakeDatagram
<1>2. CASE peeked # <<>>
  <2>1. peeked' = <<>> /\ receiver' = receiver /\ Tail(peeked) = <<>>
    BY <1>1, <1>2, AtMostOne DEF U!TakeDatagram
  <2>2. read' = Head(peeked)
    <3>1. Head(peeked \o receiver) = Head(peeked)
      BY <1>1, <1>2
    <3> QED BY <3>1 DEF U!TakeDatagram
  <2>3. Head(peeked) \in (read + 1) .. arrived /\ Chain(Head(peeked), Tail(peeked), receiver, rxBuf, arrived)
    BY <1>1, <1>2, ChainDelivers
  <2>4. Len(peeked') <= 1
    BY <2>1
  <2> QED BY <1>1, <2>1, <2>2, <2>3, <2>4 DEF UdpIn
<1>3. CASE peeked = <<>>
  <2>1. /\ receiver # <<>> /\ read' = Head(receiver) /\ receiver' = Tail(receiver) /\ peeked' = peeked
        /\ Head(receiver) \in Nat
    <3>1. peeked \o receiver = receiver
      BY <1>1, <1>3
    <3> QED BY <1>1, <1>3, <3>1 DEF U!TakeDatagram
  <2>2. Chain(read, <<Head(receiver)>>, Tail(receiver), rxBuf, arrived)
    <3>1. Chain(read, Append(<<>>, Head(receiver)), Tail(receiver), rxBuf, arrived)
      BY <1>1, <1>3, <2>1, ChainMovesMiddle
    <3> QED BY <2>1, <3>1, OneMore
  <2>3. /\ Head(<<Head(receiver)>>) \in (read + 1) .. arrived
        /\ Chain(Head(<<Head(receiver)>>), Tail(<<Head(receiver)>>), Tail(receiver), rxBuf, arrived)
    BY <2>1, <2>2, ChainDelivers, OneMore
  <2>4. /\ Head(receiver) \in (read + 1) .. arrived
        /\ Chain(Head(receiver), <<>>, Tail(receiver), rxBuf, arrived)
    BY <2>1, <2>3, OneMore
  <2> QED BY <1>1, <1>3, <2>1, <2>4 DEF UdpIn
<1> QED BY <1>2, <1>3

\* A step of the UDP relay keeps the datagrams that came in ascending, and is a
\* step of the pipe from the network to the reader, or none.
LEMMA UdpInStep ==
    ASSUME UdpIn, [U!Next]_U!vars
    PROVE  UdpIn' /\ [U!Ingress!Send \/ U!Ingress!Deliver]_<<arrived, read>>
<1> DEFINE Goal == UdpIn' /\ [U!Ingress!Send \/ U!Ingress!Deliver]_<<arrived, read>>
<1>1. /\ Chain(read, peeked, receiver, rxBuf, arrived) /\ peeked \in Seq(Nat) /\ receiver \in Seq(Nat)
      /\ rxBuf \in Seq(Nat) /\ Len(peeked) <= 1 /\ (told => peeked # <<>>)
      /\ <<>> \in Seq(Nat) /\ Len(<<>>) <= 1
  BY DEF UdpIn, Chain
<1>2. ASSUME UNCHANGED <<peeked, told, receiver, read, rxBuf, arrived>> PROVE Goal
  BY <1>2 DEF UdpIn
<1>3. ASSUME U!TakeDatagram, UNCHANGED <<rxBuf, arrived>> PROVE Goal
  BY <1>3, UdpTakes DEF U!Ingress!Deliver
<1>4. ASSUME UNCHANGED <<read, arrived>>, UdpIn' PROVE Goal
  BY <1>4
<1>5. ASSUME NEW t \in Tasks, U!Call(t) PROVE Goal
  <2>1. CASE U!FinishRecvFrom(t) /\ U!TakeDatagram
    BY <1>3, <2>1 DEF U!FinishRecvFrom, U!socket
  <2>2. CASE U!FinishRecvFrom(t) /\ ~U!TakeDatagram
    BY <1>2, <2>2 DEF U!FinishRecvFrom, U!socket, U!reader
  <2>3. CASE ~U!FinishRecvFrom(t)
    <3>1. UNCHANGED <<peeked, told, receiver, read, rxBuf, arrived>>
      BY <1>5, <2>3 DEF U!Call, U!BeginSendTo, U!BeginSend, U!BeginConnect, U!BeginRecvFrom,
             U!Begin, U!FinishConnect, U!SendReadsPeer, U!FinishSendTo, U!Cancel, U!reader,
             U!socket
    <3> QED BY <1>2, <3>1
  <2> QED BY <2>1, <2>2, <2>3
<1>6. CASE U!try_send \/ U!poll_writable \/ U!PollSendTo \/ U!RelayTakes \/ U!RelaySends
              \/ U!NicSends
  <2>1. UNCHANGED <<peeked, told, receiver, read, rxBuf, arrived>>
    BY <1>6 DEF U!try_send, U!TrySendTo, U!poll_writable, U!PollSendReady, U!PollPending,
           U!PollSendTo, U!PollReserved, U!RelayTakes, U!RelaySends, U!NicSends, U!reader, U!socket
  <2> QED BY <1>2, <2>1
<1>7. CASE U!poll_recv
  BY <1>3, <1>7 DEF U!poll_recv, U!TryRecvFrom, U!socket
<1>8. CASE U!PollRecvReady
  <2>1. UNCHANGED <<read, rxBuf, arrived>> /\ told' = TRUE
    BY <1>8 DEF U!PollRecvReady, U!socket
  <2>2. CASE peeked # <<>>
    <3>1. UNCHANGED <<peeked, receiver>>
      BY <1>8, <2>2 DEF U!PollRecvReady
    <3> QED BY <1>1, <1>4, <2>1, <2>2, <3>1 DEF UdpIn
  <2>3. CASE peeked = <<>>
    <3>1. /\ receiver # <<>> /\ peeked' = <<Head(receiver)>> /\ receiver' = Tail(receiver) /\ Head(receiver) \in Nat
      <4>1. peeked \o receiver = receiver
        BY <1>1, <2>3
      <4> QED BY <1>1, <1>8, <2>3, <4>1 DEF U!PollRecvReady, U!Stash
    <3>2. Chain(read, Append(<<>>, Head(receiver)), Tail(receiver), rxBuf, arrived)
      BY <1>1, <2>3, <3>1, ChainMovesMiddle
    <3>3. /\ Chain(read, <<Head(receiver)>>, Tail(receiver), rxBuf, arrived)
          /\ <<Head(receiver)>> # <<>> /\ Len(<<Head(receiver)>>) <= 1
      BY <3>1, <3>2, OneMore
    <3> QED BY <1>4, <2>1, <3>1, <3>3 DEF UdpIn
  <2> QED BY <2>2, <2>3
<1>9. CASE U!DropSocket
  <2>1. Chain(read, <<>>, <<>>, rxBuf, arrived)
    BY <1>1, ChainLoses
  <2>2. UNCHANGED <<read, rxBuf, arrived>> /\ peeked' = <<>> /\ receiver' = <<>> /\ told' = FALSE
    BY <1>9 DEF U!DropSocket, U!socket
  <2> QED BY <1>1, <1>4, <2>1, <2>2 DEF UdpIn
<1>10. CASE U!RelayReceives
  <2>1. rxBuf # <<>> /\ rxBuf' = Tail(rxBuf) /\ UNCHANGED <<peeked, told, read, arrived>>
    BY <1>10 DEF U!RelayReceives
  <2>2. receiver' \in {receiver, Append(receiver, Head(rxBuf))}
    BY <1>10 DEF U!RelayReceives, U!Forward
  <2>3. /\ Chain(read, peeked, receiver, Tail(rxBuf), arrived)
        /\ Chain(read, peeked, Append(receiver, Head(rxBuf)), Tail(rxBuf), arrived)
    BY <1>1, <2>1, ChainMovesLast
  <2> QED BY <1>1, <1>4, <2>1, <2>2, <2>3 DEF UdpIn
<1>11. CASE U!Exit
  <2>1. rxBuf' = <<>> /\ UNCHANGED <<peeked, told, receiver, read, arrived>>
    BY <1>11 DEF U!Exit, U!reader
  <2>2. Chain(read, peeked, receiver, <<>>, arrived)
    BY <1>1, ChainLoses
  <2> QED BY <1>1, <1>4, <2>1, <2>2 DEF UdpIn
<1>12. CASE U!Arrives
  <2>1. /\ arrived' = arrived + 1 /\ rxBuf' \in {rxBuf, Append(rxBuf, arrived + 1)}
        /\ UNCHANGED <<peeked, told, receiver, read>>
    BY <1>12 DEF U!Arrives, U!reader
  <2>2. /\ Chain(read, peeked, receiver, rxBuf, arrived + 1)
        /\ Chain(read, peeked, receiver, Append(rxBuf, arrived + 1), arrived + 1)
    BY <1>1, ChainGrows
  <2>3. UdpIn'
    BY <1>1, <2>1, <2>2 DEF UdpIn
  <2> QED BY <2>1, <2>3 DEF U!Ingress!Send
<1>13. CASE UNCHANGED U!vars
  BY <1>2, <1>13 DEF U!vars, U!reader, U!socket
<1> QED BY <1>5, <1>6, <1>7, <1>8, <1>9, <1>10, <1>11, <1>12, <1>13
        DEF U!Next, U!OsSideGone, U!LcoreEnds

\* The same for the pipe from the tasks to the NIC.
LEMMA UdpOutStep ==
    ASSUME UdpOut, [U!Next]_U!vars
    PROVE  UdpOut' /\ [U!Egress!Send \/ U!Egress!Deliver]_<<accepted, wire>>
<1> DEFINE Goal == UdpOut' /\ [U!Egress!Send \/ U!Egress!Deliver]_<<accepted, wire>>
<1>1. /\ Chain(wire, txBuf, held, toLcore, accepted) /\ txBuf \in Seq(Nat) /\ held \in Seq(Nat)
      /\ toLcore \in Seq(Nat) /\ Len(held) <= 1 /\ (relay # "send_to" => held = <<>>)
      /\ <<>> \in Seq(Nat) /\ Len(<<>>) <= 1
  BY DEF UdpOut, Chain
<1>2. ASSUME UNCHANGED <<txBuf, held, toLcore, accepted, wire, relay>> PROVE Goal
  BY <1>2 DEF UdpOut
<1>3. ASSUME U!ChannelTakes, UNCHANGED <<txBuf, held, wire, relay>> PROVE Goal
  <2>1. Chain(wire, txBuf, held, Append(toLcore, accepted + 1), accepted + 1)
    BY <1>1, ChainGrows
  <2>2. UdpOut'
    BY <1>1, <1>3, <2>1 DEF UdpOut, U!ChannelTakes
  <2> QED BY <1>3, <2>2 DEF U!ChannelTakes, U!Egress!Send
<1>4. ASSUME UNCHANGED <<accepted, wire>>, UdpOut' PROVE Goal
  BY <1>4
<1>5. ASSUME NEW t \in Tasks, U!Call(t) PROVE Goal
  <2>1. CASE U!FinishSendTo(t) /\ U!ChannelTakes
    BY <1>3, <2>1 DEF U!FinishSendTo, U!socket
  <2>2. CASE U!FinishSendTo(t) /\ ~U!ChannelTakes
    BY <1>2, <2>2 DEF U!FinishSendTo, U!socket, U!writer
  <2>3. CASE ~U!FinishSendTo(t)
    <3>1. UNCHANGED <<txBuf, held, toLcore, accepted, wire, relay>>
      BY <1>5, <2>3 DEF U!Call, U!BeginSendTo, U!BeginSend, U!BeginConnect, U!BeginRecvFrom,
             U!Begin, U!FinishConnect, U!SendReadsPeer, U!FinishRecvFrom, U!Cancel, U!writer,
             U!socket
    <3> QED BY <1>2, <3>1
  <2> QED BY <2>1, <2>2, <2>3
<1>6. CASE U!try_send
  BY <1>3, <1>6 DEF U!try_send, U!TrySendTo, U!socket
<1>7. CASE U!PollSendTo
  BY <1>3, <1>7 DEF U!PollSendTo, U!PollReserved, U!socket
<1>8. CASE U!poll_writable \/ U!poll_recv \/ U!PollRecvReady \/ U!DropSocket
              \/ U!RelayReceives \/ U!Arrives
  <2>1. UNCHANGED <<txBuf, held, toLcore, accepted, wire, relay>>
    BY <1>8 DEF U!poll_writable, U!PollSendReady, U!PollPending, U!PollReserved, U!poll_recv,
           U!TryRecvFrom, U!PollRecvReady, U!DropSocket, U!RelayReceives, U!Forward, U!Arrives,
           U!writer, U!socket
  <2> QED BY <1>2, <2>1
<1>9. CASE U!RelayTakes
  <2>1. /\ held = <<>> /\ toLcore # <<>> /\ held' = <<Head(toLcore)>> /\ Head(toLcore) \in Nat
        /\ toLcore' = Tail(toLcore) /\ relay' = "send_to" /\ UNCHANGED <<txBuf, accepted, wire>>
    BY <1>1, <1>9 DEF U!RelayTakes, U!socket
  <2>2. Chain(wire, txBuf, Append(<<>>, Head(toLcore)), Tail(toLcore), accepted)
    BY <1>1, <2>1, ChainMovesLast
  <2>3. /\ Chain(wire, txBuf, <<Head(toLcore)>>, Tail(toLcore), accepted)
        /\ Len(<<Head(toLcore)>>) <= 1
    BY <2>1, <2>2, OneMore
  <2> QED BY <1>4, <2>1, <2>3 DEF UdpOut
<1>10. CASE U!RelaySends
  <2>1. /\ held' = <<>> /\ relay' = "select" /\ txBuf' \in {txBuf, txBuf \o held}
        /\ UNCHANGED <<toLcore, accepted, wire>>
    BY <1>10 DEF U!RelaySends, U!writer
  <2>2. Chain(wire, txBuf, <<>>, toLcore, accepted)
    BY <1>1, ChainLoses
  <2>3. Chain(wire, txBuf \o held, <<>>, toLcore, accepted)
    <3>1. CASE held = <<>>
      <4>1. txBuf \o held = txBuf
        BY <1>1, <3>1
      <4> QED BY <2>2, <4>1
    <3>2. CASE held # <<>>
      <4>1. held = <<Head(held)>> /\ Tail(held) = <<>>
        BY <1>1, <3>2, AtMostOne
      <4>2. Chain(wire, Append(txBuf, Head(held)), Tail(held), toLcore, accepted)
        BY <1>1, <3>2, ChainMovesMiddle
      <4>3. txBuf \o held = Append(txBuf, Head(held))
        <5>1. Head(held) \in Nat
          BY <1>1, <3>2
        <5>2. txBuf \o <<Head(held)>> = Append(txBuf, Head(held))
          BY <1>1, <5>1, JoinOne
        <5> QED BY <4>1, <5>2
      <4> QED BY <4>1, <4>2, <4>3
    <3> QED BY <3>1, <3>2
  <2> QED BY <1>1, <1>4, <2>1, <2>2, <2>3 DEF UdpOut
<1>11. CASE U!Exit
  <2>1. /\ txBuf' = <<>> /\ held' = <<>> /\ toLcore' = <<>> /\ relay' = "done"
        /\ UNCHANGED <<accepted, wire>>
    BY <1>11 DEF U!Exit
  <2>2. Chain(wire, <<>>, <<>>, <<>>, accepted)
    BY <1>1, ChainLoses
  <2> QED BY <1>1, <1>4, <2>1, <2>2 DEF UdpOut
<1>12. CASE U!NicSends
  <2>1. /\ txBuf # <<>> /\ txBuf' = Tail(txBuf) /\ wire' = Head(txBuf)
        /\ UNCHANGED <<held, toLcore, accepted, relay>>
    BY <1>12 DEF U!NicSends, U!writer
  <2>2. Head(txBuf) \in (wire + 1) .. accepted /\ Chain(Head(txBuf), Tail(txBuf), held, toLcore, accepted)
    BY <1>1, <2>1, ChainDelivers
  <2>3. UdpOut'
    BY <1>1, <2>1, <2>2 DEF UdpOut
  <2> QED BY <2>1, <2>2, <2>3 DEF U!Egress!Deliver
<1>13. CASE UNCHANGED U!vars
  BY <1>2, <1>13 DEF U!vars, U!writer, U!socket
<1> QED BY <1>5, <1>6, <1>7, <1>8, <1>9, <1>10, <1>11, <1>12, <1>13
        DEF U!Next, U!OsSideGone, U!LcoreEnds

\* Both directions of the UDP relay are datagram pipes: what is read was sent,
\* none twice and none before an earlier one, whichever are lost on the way
\* (udp_relay_task, poll_send_to and poll_recv_from).
THEOREM DatagramsInOrder == U!Spec => U!BothWaysArePipes
<1>1. U!Init => U!Ingress!Init /\ U!Egress!Init
  BY DEF U!Init, U!Ingress!Init, U!Egress!Init
<1>2. U!Spec => [](UdpIn /\ UdpOut)
  <2>1. UdpIn /\ UdpOut /\ [U!Next]_U!vars => (UdpIn /\ UdpOut)'
    BY UdpInStep, UdpOutStep
  <2> QED BY <2>1, UdpInit, PTL DEF U!Spec
<1>3. UdpIn /\ [U!Next]_U!vars => [U!Ingress!Send \/ U!Ingress!Deliver]_<<arrived, read>>
  BY UdpInStep
<1>4. UdpOut /\ [U!Next]_U!vars => [U!Egress!Send \/ U!Egress!Deliver]_<<accepted, wire>>
  BY UdpOutStep
<1> QED BY <1>1, <1>2, <1>3, <1>4, PTL
        DEF U!Spec, U!BothWaysArePipes, U!Ingress!Spec, U!Egress!Spec

\* After poll_recv_ready said Ready, and until somebody reads, the datagram it
\* peeked at is kept for the next reader (bridge/udp.rs).
THEOREM ReadyIsReadable == U!Spec => []ReadyMeansReadable
<1>1. UdpIn /\ UdpOut /\ [U!Next]_U!vars => (UdpIn /\ UdpOut)'
  BY UdpInStep, UdpOutStep
<1>2. UdpIn => ReadyMeansReadable
  BY DEF UdpIn, ReadyMeansReadable
<1> QED BY <1>1, <1>2, UdpInit, PTL DEF U!Spec

-----------------------------------------------------------------------------
(* UdpRelay: the queues of the three mutexes.                              *)

In(u, q)    == \E i \in DOMAIN q : q[i] = u
First(u, q) == q # <<>> /\ Head(q) = u

\* Nobody has two places in a queue.
Queue(q) == q \in Seq(Tasks) /\ \A i, j \in 1 .. Len(q) : q[i] = q[j] => i = j

\* r is q with task t in it as well; its holder has not changed.
Joins(t, q, r) ==
    /\ Queue(r) /\ \A u : In(u, r) <=> In(u, q) \/ u = t
    /\ \A u : First(u, q) => First(u, r)

\* r is q without task t; its holder has not changed, unless it was t.
Leaves(t, q, r) ==
    /\ Queue(r) /\ \A u : In(u, r) <=> In(u, q) /\ u # t
    /\ \A u : First(u, q) /\ u # t => First(u, r)

\* A task takes its place at the end of a queue.
LEMMA QueueJoined ==
    ASSUME NEW q, Queue(q), NEW t \in Tasks, ~In(t, q)
    PROVE  Joins(t, q, Append(q, t))
<1> DEFINE r == Append(q, t)
<1>1. q \in Seq(Tasks) /\ r \in Seq(Tasks) /\ DOMAIN q = 1 .. Len(q) /\ DOMAIN r = 1 .. Len(r)
  BY DEF Queue
<1>2. /\ Len(q) \in Nat /\ Len(r) = Len(q) + 1 /\ r[Len(q) + 1] = t
      /\ \A i \in 1 .. Len(q) : i \in 1 .. Len(r) /\ r[i] = q[i]
      /\ \A i \in 1 .. Len(r) : (i \in 1 .. Len(q) /\ r[i] = q[i]) \/ (i = Len(q) + 1 /\ r[i] = t)
  BY <1>1
<1>3. q # <<>> => r # <<>> /\ Head(r) = Head(q)
  BY <1>1, <1>2
<1> HIDE DEF r
<1>4. Queue(r)
  BY <1>1, <1>2 DEF Queue, In
<1>5. \A u : In(u, r) <=> In(u, q) \/ u = t
  <2>1. Len(q) + 1 \in 1 .. Len(r)
    BY <1>2
  <2> QED BY <1>1, <1>2, <2>1 DEF In
<1> QED BY <1>3, <1>4, <1>5 DEF Joins, First, r

\* The two sides of a place in a queue.
LEMMA CutAt ==
    ASSUME NEW q \in Seq(Tasks), NEW i \in 1 .. Len(q)
    PROVE  /\ SubSeq(q, 1, i - 1) \in Seq(Tasks) /\ Len(SubSeq(q, 1, i - 1)) = i - 1
           /\ SubSeq(q, i + 1, Len(q)) \in Seq(Tasks) /\ Len(SubSeq(q, i + 1, Len(q))) = Len(q) - i
           /\ \A k \in 1 .. i - 1 : SubSeq(q, 1, i - 1)[k] = q[k]
           /\ \A k \in 1 .. Len(q) - i : SubSeq(q, i + 1, Len(q))[k] = q[k + i]
<1>1. PICK n \in Nat : n = Len(q) /\ i \in 1 .. n /\ i \in Nat /\ \A k \in 1 .. n : q[k] \in Tasks
  OBVIOUS
<1>2. PICK m \in Nat : m = i - 1 /\ m <= n
  BY <1>1
<1>3. /\ SubSeq(q, 1, m) \in Seq(Tasks) /\ Len(SubSeq(q, 1, m)) = m
      /\ \A k \in 1 .. m : SubSeq(q, 1, m)[k] = q[k]
  BY <1>1, <1>2
<1>4. /\ SubSeq(q, i + 1, n) \in Seq(Tasks) /\ Len(SubSeq(q, i + 1, n)) = n - i
      /\ \A k \in 1 .. n - i : SubSeq(q, i + 1, n)[k] = q[k + i]
  BY <1>1
<1> QED BY <1>1, <1>2, <1>3, <1>4

\* What stands where in two queues joined.
LEMMA JoinAt ==
    ASSUME NEW a \in Seq(Tasks), NEW b \in Seq(Tasks)
    PROVE  /\ a \o b \in Seq(Tasks) /\ Len(a \o b) = Len(a) + Len(b)
           /\ \A k \in 1 .. Len(a) + Len(b) : (a \o b)[k] = IF k <= Len(a) THEN a[k] ELSE b[k - Len(a)]
  OBVIOUS

\* A task gives its place up.
LEMMA QueueLeft ==
    ASSUME NEW q, Queue(q), NEW t
    PROVE  Leaves(t, q, U!Without(q, t))
<1>1. q \in Seq(Tasks) /\ DOMAIN q = 1 .. Len(q) /\ Len(q) \in Nat
  BY DEF Queue
<1>2. CASE ~In(t, q)
  <2>1. U!Without(q, t) = q
    BY <1>2 DEF U!Without, In
  <2> QED BY <1>2, <2>1 DEF Leaves
<1>3. CASE In(t, q)
  <2>1. PICK i \in 1 .. Len(q) :
           /\ q[i] = t
           /\ U!Without(q, t) = SubSeq(q, 1, i - 1) \o SubSeq(q, i + 1, Len(q))
    <3> DEFINE k == CHOOSE k \in DOMAIN q : q[k] = t
    <3>1. k \in 1 .. Len(q) /\ q[k] = t
      BY <1>1, <1>3 DEF In
    <3>2. U!Without(q, t) = SubSeq(q, 1, k - 1) \o SubSeq(q, k + 1, Len(q))
      BY <1>3 DEF U!Without, In
    <3> QED BY <3>1, <3>2
  <2>2. PICK r : r = SubSeq(q, 1, i - 1) \o SubSeq(q, i + 1, Len(q))
    OBVIOUS
  <2>3. /\ SubSeq(q, 1, i - 1) \in Seq(Tasks) /\ Len(SubSeq(q, 1, i - 1)) = i - 1
        /\ SubSeq(q, i + 1, Len(q)) \in Seq(Tasks) /\ Len(SubSeq(q, i + 1, Len(q))) = Len(q) - i
        /\ \A k \in 1 .. i - 1 : SubSeq(q, 1, i - 1)[k] = q[k]
        /\ \A k \in 1 .. Len(q) - i : SubSeq(q, i + 1, Len(q))[k] = q[k + i]
    BY <1>1, <2>1, CutAt
  <2>4. /\ r \in Seq(Tasks) /\ Len(r) = Len(q) - 1 /\ DOMAIN r = 1 .. Len(q) - 1
        /\ \A k \in 1 .. Len(q) - 1 : r[k] = IF k < i THEN q[k] ELSE q[k + 1]
    <3> DEFINE a == SubSeq(q, 1, i - 1)
               b == SubSeq(q, i + 1, Len(q))
    <3>1. /\ a \in Seq(Tasks) /\ b \in Seq(Tasks) /\ Len(a) = i - 1 /\ Len(b) = Len(q) - i /\ r = a \o b
          /\ \A k \in 1 .. i - 1 : a[k] = q[k]
          /\ \A k \in 1 .. Len(q) - i : b[k] = q[k + i]
      BY <2>2, <2>3
    <3> HIDE DEF a, b
    <3>2. /\ r \in Seq(Tasks) /\ Len(r) = Len(a) + Len(b)
          /\ \A k \in 1 .. Len(a) + Len(b) : r[k] = IF k <= Len(a) THEN a[k] ELSE b[k - Len(a)]
      BY <3>1, JoinAt
    <3>3. Len(a) + Len(b) = Len(q) - 1
      BY <1>1, <3>1
    <3>4. ASSUME NEW k \in 1 .. Len(q) - 1 PROVE r[k] = IF k < i THEN q[k] ELSE q[k + 1]
      <4>1. CASE k < i
        <5>1. k \in 1 .. i - 1 /\ k <= Len(a)
          BY <1>1, <3>1, <4>1
        <5> QED BY <3>1, <3>2, <3>3, <4>1, <5>1
      <4>2. CASE ~(k < i)
        <5>1. ~(k <= Len(a)) /\ k - Len(a) \in 1 .. Len(q) - i /\ (k - Len(a)) + i = k + 1
          BY <1>1, <3>1, <4>2
        <5>2. r[k] = b[k - Len(a)]
          BY <3>2, <3>3, <5>1
        <5> QED BY <3>1, <4>2, <5>1, <5>2
      <4> QED BY <4>1, <4>2
    <3>5. r \in Seq(Tasks) /\ Len(r) = Len(q) - 1
      BY <3>2, <3>3
    <3>6. DOMAIN r = 1 .. Len(q) - 1
      BY <3>5
    <3> QED BY <3>4, <3>5, <3>6
  <2>5. \A j, k \in 1 .. Len(q) : q[j] = q[k] => j = k
    BY DEF Queue
  <2>6. Queue(r)
    <3> SUFFICES ASSUME NEW j \in 1 .. Len(r), NEW k \in 1 .. Len(r), r[j] = r[k] PROVE j = k
      BY <2>4 DEF Queue
    <3>1. PICK j1 \in 1 .. Len(q) : r[j] = q[j1] /\ j1 = IF j < i THEN j ELSE j + 1
      BY <1>1, <2>4
    <3>2. PICK k1 \in 1 .. Len(q) : r[k] = q[k1] /\ k1 = IF k < i THEN k ELSE k + 1
      BY <1>1, <2>4
    <3>3. j1 = k1
      BY <2>5, <3>1, <3>2
    <3> QED BY <1>1, <2>4, <3>1, <3>2, <3>3
  <2>7. ASSUME NEW u, In(u, r) PROVE In(u, q) /\ u # t
    <3>1. PICK k \in 1 .. Len(q) - 1 : r[k] = u
      BY <2>4, <2>7 DEF In
    <3>2. PICK j \in 1 .. Len(q) : j # i /\ q[j] = u
      BY <1>1, <2>4, <3>1
    <3> QED BY <1>1, <2>1, <2>5, <3>2 DEF In
  <2>8. ASSUME NEW u, In(u, q), u # t PROVE In(u, r)
    <3>1. PICK j \in 1 .. Len(q) : q[j] = u /\ j # i
      BY <1>1, <2>1, <2>8 DEF In
    <3>2. PICK k \in 1 .. Len(q) - 1 : j = IF k < i THEN k ELSE k + 1
      <4>1. CASE j < i
        BY <1>1, <3>1, <4>1
      <4>2. CASE ~(j < i)
        <5>1. j - 1 \in 1 .. Len(q) - 1 /\ ~(j - 1 < i) /\ (j - 1) + 1 = j
          BY <1>1, <3>1, <4>2
        <5> QED BY <5>1
      <4> QED BY <4>1, <4>2
    <3>3. r[k] = u
      BY <2>4, <3>1, <3>2
    <3> QED BY <2>4, <3>3 DEF In
  <2>9. ASSUME NEW u, First(u, q), u # t PROVE First(u, r)
    <3>1. q[1] = u /\ i # 1 /\ Len(q) \in Nat \ {0}
      BY <1>1, <2>1, <2>9 DEF First
    <3>2. 1 \in 1 .. Len(q) - 1 /\ 1 < i
      BY <1>1, <2>1, <3>1
    <3>3. r[1] = u
      BY <2>4, <3>1, <3>2
    <3> QED BY <2>4, <3>2, <3>3 DEF First
  <2> QED BY <2>1, <2>2, <2>6, <2>7, <2>8, <2>9 DEF Leaves
<1> QED BY <1>2, <1>3

\* The places a task has are those of the call it is in.  Only the holder of
\* peer_addr queues for a second lock, and only for tx.
PlacesOf(t) ==
    /\ In(t, lock["rx"]) <=> pc[t] = "recv_from"
    /\ In(t, lock["peer_addr"]) <=> pc[t] \in {"send", "connect"}
    /\ pc[t] = "send_to" => In(t, lock["tx"])
    /\ In(t, lock["tx"]) => pc[t] = "send_to" \/ (pc[t] = "send" /\ First(t, lock["peer_addr"]))

QueuesFit ==
    /\ DOMAIN lock = U!Locks /\ lock = [l \in U!Locks |-> lock[l]]
    /\ \A l \in U!Locks : Queue(lock[l])
    /\ pc \in [Tasks -> {"idle", "send_to", "send", "connect", "recv_from"}]
    /\ \A t \in Tasks : PlacesOf(t)
    /\ relay \in {"select", "send_to", "done"}

\* A task gives up all its places.
LEMMA LeavesFit ==
    ASSUME QueuesFit, NEW t \in Tasks, U!Leave(t)
    PROVE  /\ DOMAIN lock' = U!Locks /\ lock' = [l \in U!Locks |-> lock'[l]]
           /\ \A l \in U!Locks : Queue(lock'[l])
           /\ pc' \in [Tasks -> {"idle", "send_to", "send", "connect", "recv_from"}]
           /\ \A u \in Tasks : PlacesOf(u)'
<1>1. /\ lock' = [l \in U!Locks |-> U!Without(lock[l], t)] /\ pc' = [pc EXCEPT ![t] = "idle"]
      /\ pc \in [Tasks -> {"idle", "send_to", "send", "connect", "recv_from"}]
  BY DEF U!Leave, QueuesFit
<1>2. \A l \in U!Locks : lock'[l] = U!Without(lock[l], t) /\ Leaves(t, lock[l], lock'[l])
  BY <1>1, QueueLeft DEF QueuesFit
<1>3. ASSUME NEW u \in Tasks PROVE PlacesOf(u)'
  <2>1. PlacesOf(u) /\ {"rx", "tx", "peer_addr"} \subseteq U!Locks
    BY DEF QueuesFit, U!Locks
  <2>2. \A l \in U!Locks : (In(u, lock'[l]) <=> In(u, lock[l]) /\ u # t)
                           /\ (First(u, lock[l]) /\ u # t => First(u, lock'[l]))
    BY <1>2 DEF Leaves
  <2>3. CASE u = t
    <3>1. pc'[u] = "idle"
      BY <1>1, <2>3
    <3> QED BY <2>1, <2>2, <2>3, <3>1 DEF PlacesOf
  <2>4. CASE u # t
    <3>1. pc'[u] = pc[u]
      BY <1>1, <2>4
    <3> QED BY <2>1, <2>2, <2>4, <3>1 DEF PlacesOf
  <2> QED BY <2>3, <2>4
<1>4. pc' \in [Tasks -> {"idle", "send_to", "send", "connect", "recv_from"}]
  BY <1>1
<1>5. DOMAIN lock' = U!Locks /\ lock' = [l \in U!Locks |-> lock'[l]]
  BY <1>1
<1>6. \A l \in U!Locks : Queue(lock'[l])
  BY <1>2 DEF Leaves
<1> QED BY <1>3, <1>4, <1>5, <1>6

\* A task joins a queue it is not in: for the first lock of its call, or as the
\* holder of peer_addr for tx.
LEMMA JoinsFit ==
    ASSUME QueuesFit, NEW t \in Tasks, NEW l \in U!Locks, NEW c, U!Enqueue(t, l),
           c \in {"send_to", "send", "connect", "recv_from"}, pc' = [pc EXCEPT ![t] = c],
           ~In(t, lock[l]),
           \/ pc[t] = "idle" /\ <<c, l>> \in {<<"send_to", "tx">>, <<"send", "peer_addr">>,
                                              <<"connect", "peer_addr">>, <<"recv_from", "rx">>}
           \/ pc[t] = "send" /\ c = "send" /\ l = "tx" /\ First(t, lock["peer_addr"])
    PROVE  /\ DOMAIN lock' = U!Locks /\ lock' = [k \in U!Locks |-> lock'[k]]
           /\ \A k \in U!Locks : Queue(lock'[k])
           /\ pc' \in [Tasks -> {"idle", "send_to", "send", "connect", "recv_from"}]
           /\ \A u \in Tasks : PlacesOf(u)'
<1>1. /\ DOMAIN lock = U!Locks /\ lock = [k \in U!Locks |-> lock[k]]
      /\ lock' = [lock EXCEPT ![l] = Append(lock[l], t)]
      /\ pc \in [Tasks -> {"idle", "send_to", "send", "connect", "recv_from"}]
      /\ \A k \in U!Locks : Queue(lock[k])
  BY DEF U!Enqueue, QueuesFit
<1>2. /\ DOMAIN lock' = U!Locks /\ lock' = [k \in U!Locks |-> lock'[k]]
      /\ lock'[l] = Append(lock[l], t) /\ \A k \in U!Locks : k # l => lock'[k] = lock[k]
  BY <1>1
<1>3. Joins(t, lock[l], lock'[l])
  BY <1>1, <1>2, QueueJoined
<1>4. \A k \in U!Locks : Queue(lock'[k])
  BY <1>1, <1>2, <1>3 DEF Joins
<1>5. pc' \in [Tasks -> {"idle", "send_to", "send", "connect", "recv_from"}]
  BY <1>1
<1>6. ASSUME NEW u \in Tasks PROVE PlacesOf(u)'
  <2>1. PlacesOf(u) /\ {"rx", "tx", "peer_addr"} \subseteq U!Locks
    BY DEF QueuesFit, U!Locks
  <2>2. \A k \in U!Locks : /\ In(u, lock'[k]) <=> In(u, lock[k]) \/ (u = t /\ k = l)
                           /\ First(u, lock[k]) => First(u, lock'[k])
    BY <1>2, <1>3 DEF Joins
  <2>3. CASE u = t
    <3>1. pc'[u] = c
      BY <1>1, <2>3
    <3>2. CASE pc[t] = "idle"
      BY <2>1, <2>2, <2>3, <3>1, <3>2 DEF PlacesOf
    <3>3. CASE pc[t] = "send" /\ c = "send" /\ l = "tx" /\ First(t, lock["peer_addr"])
      BY <2>1, <2>2, <2>3, <3>1, <3>3 DEF PlacesOf
    <3> QED BY <3>2, <3>3
  <2>4. CASE u # t
    <3>1. pc'[u] = pc[u]
      BY <1>1, <2>4
    <3> QED BY <2>1, <2>2, <2>4, <3>1 DEF PlacesOf
  <2> QED BY <2>3, <2>4
<1> QED BY <1>2, <1>4, <1>5, <1>6

\* Every step keeps the places.
LEMMA QueuesStep ==
    ASSUME QueuesFit, [U!Next]_U!vars
    PROVE  QueuesFit'
<1>1. ASSUME UNCHANGED <<lock, pc>>, relay' \in {"select", "send_to", "done"} PROVE QueuesFit'
  BY <1>1 DEF QueuesFit, PlacesOf
<1>2. ASSUME NEW t \in Tasks, U!Leave(t), UNCHANGED relay PROVE QueuesFit'
  BY <1>2, LeavesFit DEF QueuesFit
<1>3. /\ relay \in {"select", "send_to", "done"} /\ {"rx", "tx", "peer_addr"} \subseteq U!Locks
      /\ pc \in [Tasks -> {"idle", "send_to", "send", "connect", "recv_from"}]
      /\ \A t \in Tasks : PlacesOf(t)
  BY DEF QueuesFit, U!Locks
<1>4. ASSUME NEW t \in Tasks, NEW c, NEW l, U!Begin(t, c, l),
             <<c, l>> \in {<<"send_to", "tx">>, <<"send", "peer_addr">>,
                           <<"connect", "peer_addr">>, <<"recv_from", "rx">>}
      PROVE  QueuesFit'
  <2>1. /\ pc[t] = "idle" /\ pc' = [pc EXCEPT ![t] = c] /\ U!Enqueue(t, l) /\ relay' = relay
        /\ l \in U!Locks /\ c \in {"send_to", "send", "connect", "recv_from"}
    BY <1>3, <1>4 DEF U!Begin
  <2>2. ~In(t, lock[l])
    BY <1>3, <1>4, <2>1 DEF PlacesOf
  <2> QED BY <1>3, <1>4, <2>1, <2>2, JoinsFit DEF QueuesFit
<1>5. ASSUME NEW t \in Tasks, U!SendReadsPeer(t) PROVE QueuesFit'
  <2>1. CASE U!Leave(t)
    BY <1>2, <1>5, <2>1 DEF U!SendReadsPeer
  <2>2. CASE U!Enqueue(t, "tx") /\ UNCHANGED pc
    <3>1. /\ pc[t] = "send" /\ First(t, lock["peer_addr"]) /\ ~In(t, lock["tx"]) /\ relay' = relay
      BY <1>5 DEF U!SendReadsPeer, U!Holds, U!Waits, First, In
    <3>2. pc' = [pc EXCEPT ![t] = "send"]
      BY <1>3, <2>2, <3>1
    <3> QED BY <1>3, <2>2, <3>1, <3>2, JoinsFit DEF QueuesFit
  <2> QED BY <1>5, <2>1, <2>2 DEF U!SendReadsPeer
<1>6. ASSUME NEW t \in Tasks, U!Call(t) PROVE QueuesFit'
  <2>1. CASE U!BeginSendTo(t) \/ U!BeginSend(t) \/ U!BeginConnect(t) \/ U!BeginRecvFrom(t)
    BY <1>4, <2>1 DEF U!BeginSendTo, U!BeginSend, U!BeginConnect, U!BeginRecvFrom
  <2>2. CASE U!FinishConnect(t) \/ U!FinishSendTo(t) \/ U!FinishRecvFrom(t) \/ U!Cancel(t)
    BY <1>2, <2>2 DEF U!FinishConnect, U!FinishSendTo, U!FinishRecvFrom, U!Cancel
  <2>3. CASE U!SendReadsPeer(t)
    BY <1>5, <2>3
  <2> QED BY <1>6, <2>1, <2>2, <2>3 DEF U!Call
<1>7. CASE U!try_send \/ U!poll_writable \/ U!poll_recv \/ U!PollSendTo \/ U!PollRecvReady
           \/ U!DropSocket \/ U!RelayReceives \/ U!NicSends \/ U!Arrives \/ UNCHANGED U!vars
  <2>1. UNCHANGED <<lock, pc, relay>>
    BY <1>7 DEF U!try_send, U!TrySendTo, U!poll_writable, U!PollSendReady, U!PollPending,
           U!PollSendTo, U!PollReserved, U!poll_recv, U!TryRecvFrom, U!PollRecvReady, U!DropSocket,
           U!RelayReceives, U!Forward, U!NicSends, U!Arrives, U!vars, U!calls
  <2> QED BY <1>1, <1>3, <2>1
<1>8. CASE U!RelayTakes \/ U!RelaySends \/ U!Exit
  <2>1. UNCHANGED <<lock, pc>> /\ relay' \in {"select", "send_to", "done"}
    BY <1>8 DEF U!RelayTakes, U!RelaySends, U!Exit, U!calls
  <2> QED BY <1>1, <2>1
<1> QED BY <1>6, <1>7, <1>8 DEF U!Next, U!OsSideGone, U!LcoreEnds

\* The holder of tx is sending, and it can go on as soon as the channel has a
\* slot; it has one, or the lcore is making one.
TxMoves ==
    /\ lock["tx"] # <<>> /\ Head(lock["tx"]) \in U!Sending
    /\ \/ U!Closed \/ U!FreeSlots > 0
       \/ relay = "select" /\ toLcore # <<>>
       \/ relay = "send_to" /\ (Len(txBuf) < TxPackets \/ txBuf # <<>>)

\* Nobody waits for a lock for ever because of who holds what: a task that waits
\* for tx waits for a sender that can go on, one that waits for peer_addr waits
\* for a task that needs no other lock or whose only other lock is tx; and when
\* no task is in a call, however the calls ended, every lock is free.
SendersMoveOn ==
    /\ \A t \in U!Sending :
          IF U!Waits(t, "tx") THEN TxMoves
          ELSE /\ lock["peer_addr"] # <<>>
               /\ LET u == Head(lock["peer_addr"])
                  IN  pc[u] \in {"connect", "send"} /\ (U!Waits(u, "tx") => TxMoves)
    /\ (\A t \in Tasks : pc[t] = "idle") => \A l \in U!Locks : lock[l] = <<>>

\* Places that fit leave no circle of waiting.
LEMMA NoCircle ==
    ASSUME QueuesFit, toLcore \in Seq(Nat), txBuf \in Seq(Nat),
           Cap \in Nat \ {0, 1}, TxPackets \in Nat \ {0}
    PROVE  SendersMoveOn
<1>1. /\ \A l \in U!Locks : Queue(lock[l])
      /\ \A t \in Tasks : PlacesOf(t)
      /\ {"rx", "tx", "peer_addr"} = U!Locks
  BY DEF QueuesFit, U!Locks
<1>2. \A t, l : U!Waits(t, l) <=> In(t, lock[l])
  BY DEF U!Waits, In
<1>3. \A q : Queue(q) /\ q # <<>> => Head(q) \in Tasks /\ In(Head(q), q)
  <2> SUFFICES ASSUME NEW q, Queue(q), q # <<>> PROVE Head(q) \in Tasks /\ In(Head(q), q)
    OBVIOUS
  <2>1. q \in Seq(Tasks) /\ 1 \in DOMAIN q /\ Head(q) = q[1] /\ Head(q) \in Tasks
    BY DEF Queue
  <2> QED BY <2>1 DEF In
<1>4. \A q, t : In(t, q) /\ Queue(q) => q # <<>>
  BY DEF In, Queue
<1>5. ASSUME lock["tx"] # <<>> PROVE TxMoves
  <2>1. Head(lock["tx"]) \in U!Sending
    BY <1>1, <1>3, <1>5 DEF PlacesOf, U!Sending
  <2>2. U!FreeSlots > 0 \/ toLcore # <<>>
    <3>1. CASE toLcore = <<>>
      <4>1. Len(toLcore) = 0
        BY <3>1
      <4> QED BY <4>1 DEF U!FreeSlots
    <3> QED BY <3>1
  <2>3. Len(txBuf) < TxPackets \/ txBuf # <<>>
    <3>1. CASE txBuf = <<>>
      <4>1. Len(txBuf) = 0
        BY <3>1
      <4> QED BY <4>1
    <3> QED BY <3>1
  <2>4. relay \in {"select", "send_to", "done"}
    BY DEF QueuesFit
  <2> QED BY <1>5, <2>1, <2>2, <2>3, <2>4 DEF TxMoves, U!Closed
<1>6. ASSUME NEW t, U!Waits(t, "tx") PROVE TxMoves
  BY <1>1, <1>2, <1>4, <1>5, <1>6
<1>7. ASSUME NEW t \in U!Sending, ~U!Waits(t, "tx")
      PROVE  lock["peer_addr"] # <<>> /\ Head(lock["peer_addr"]) \in Tasks
             /\ pc[Head(lock["peer_addr"])] \in {"connect", "send"}
  <2>1. t \in Tasks /\ pc[t] \in {"send_to", "send"} /\ PlacesOf(t) /\ ~In(t, lock["tx"])
    BY <1>1, <1>2, <1>7 DEF U!Sending
  <2>2. In(t, lock["peer_addr"])
    BY <2>1 DEF PlacesOf
  <2>3. lock["peer_addr"] # <<>>
    BY <1>1, <1>4, <2>2
  <2>4. Head(lock["peer_addr"]) \in Tasks /\ In(Head(lock["peer_addr"]), lock["peer_addr"])
    BY <1>1, <1>3, <2>3
  <2> QED BY <1>1, <2>3, <2>4 DEF PlacesOf
<1>8. ASSUME \A t \in Tasks : pc[t] = "idle", NEW l \in U!Locks PROVE lock[l] = <<>>
  <2>1. ASSUME lock[l] # <<>> PROVE FALSE
    <3>1. PICK u \in Tasks : In(u, lock[l])
      BY <1>1, <1>3, <2>1
    <3> QED BY <1>1, <1>8, <3>1 DEF PlacesOf
  <2> QED BY <2>1
<1> QED BY <1>6, <1>7, <1>8 DEF SendersMoveOn

\* The three mutexes of a BridgeUdpSocket, held across awaits and taken one
\* inside the other by send(), never leave a sender waiting in a circle, whoever
\* cancels a call where, and no lock outlives the calls (send, send_to, connect
\* and recv_from of bridge/udp.rs).  A channel of two datagrams or more is
\* needed, because one slot may be set aside for a poll nobody repeats.
THEOREM SendersNeverDeadlock ==
    ASSUME Cap \in Nat \ {0, 1}, TxPackets \in Nat \ {0}
    PROVE  U!Spec => []SendersMoveOn
<1>1. U!Init => QueuesFit
  <2> SUFFICES ASSUME U!Init PROVE QueuesFit
    OBVIOUS
  <2>1. /\ lock = [l \in U!Locks |-> <<>>] /\ pc = [t \in Tasks |-> "idle"] /\ relay = "select"
        /\ {"rx", "tx", "peer_addr"} \subseteq U!Locks
    BY DEF U!Init, U!Locks
  <2>2. <<>> \in Seq(Tasks) /\ Len(<<>>) = 0 /\ DOMAIN <<>> = {} /\ 1 .. 0 = {}
    OBVIOUS
  <2>3. Queue(<<>>) /\ \A u : ~In(u, <<>>)
    BY <2>2 DEF Queue, In
  <2>4. \A l \in U!Locks : lock[l] = <<>>
    BY <2>1
  <2> QED BY <2>1, <2>3, <2>4 DEF QueuesFit, PlacesOf
<1>2. QueuesFit /\ UdpOut /\ [U!Next]_U!vars => (QueuesFit /\ UdpOut)'
  BY QueuesStep, UdpOutStep
<1>3. QueuesFit /\ UdpOut => SendersMoveOn
  BY NoCircle DEF UdpOut, Chain
<1> QED BY <1>1, <1>2, <1>3, UdpInit, PTL DEF U!Spec

-----------------------------------------------------------------------------
(* Bytes on their way, cut into chunks.                                    *)

\* s holds the bytes lo + 1 .. hi.
Run(s, lo, hi) ==
    /\ s \in Seq(Nat) /\ lo \in Nat /\ hi \in Nat
    /\ Len(s) = hi - lo /\ \A i \in 1 .. Len(s) : s[i] = lo + i

\* A run is determined by its ends.
LEMMA RunOf ==
    ASSUME NEW s, NEW lo \in Nat, NEW hi \in Nat, Run(s, lo, hi)
    PROVE  s = Bytes(lo, hi) /\ lo <= hi /\ (s = <<>> <=> lo = hi)
  BY DEF Run, Bytes

\* Nothing is a run from lo to lo.
LEMMA RunEmpty ==
    ASSUME NEW lo \in Nat
    PROVE  Run(<<>>, lo, lo)
  BY DEF Run

\* n bytes after lo are a run.
LEMMA BytesRun ==
    ASSUME NEW lo \in Nat, NEW n \in Nat
    PROVE  Run(Bytes(lo, lo + n), lo, lo + n)
  BY DEF Run, Bytes

\* Cutting a run, joining two that meet, and adding or taking a byte.
LEMMA RunCut ==
    ASSUME NEW s, NEW lo, NEW hi, Run(s, lo, hi), NEW k \in 0 .. Len(s)
    PROVE  /\ Run(Take(s, k), lo, lo + k) /\ Run(Skip(s, k), lo + k, hi)
           /\ lo + k \in Nat /\ lo + k <= hi
<1>1. /\ s \in Seq(Nat) /\ lo \in Nat /\ hi \in Nat /\ Len(s) = hi - lo /\ k <= hi - lo
      /\ \A i \in 1 .. Len(s) : s[i] = lo + i
  BY DEF Run
<1>2. /\ Take(s, k) \in Seq(Nat) /\ Len(Take(s, k)) = k
      /\ \A i \in 1 .. k : Take(s, k)[i] = s[i] /\ i \in 1 .. Len(s)
  BY <1>1 DEF Take
<1>3. /\ Skip(s, k) \in Seq(Nat) /\ Len(Skip(s, k)) = Len(s) - k
      /\ \A i \in 1 .. Len(s) - k : Skip(s, k)[i] = s[k + i] /\ k + i \in 1 .. Len(s)
  BY <1>1 DEF Skip
<1>4. Run(Take(s, k), lo, lo + k)
  <2> DEFINE t == Take(s, k)
  <2>1. t \in Seq(Nat) /\ Len(t) = k /\ \A i \in 1 .. k : t[i] = lo + i
    BY <1>1, <1>2
  <2> HIDE DEF t
  <2>2. Run(t, lo, lo + k)
    BY <1>1, <2>1 DEF Run
  <2> QED BY <2>2 DEF t
<1>5. Run(Skip(s, k), lo + k, hi)
  BY <1>1, <1>3 DEF Run
<1> QED BY <1>1, <1>4, <1>5

\* Two runs that meet are one.
LEMMA RunJoin ==
    ASSUME NEW s, NEW t, NEW lo, NEW mid, NEW hi, Run(s, lo, mid), Run(t, mid, hi)
    PROVE  Run(s \o t, lo, hi)
<1>1. s \in Seq(Nat) /\ t \in Seq(Nat) /\ lo \in Nat /\ mid \in Nat /\ hi \in Nat
  BY DEF Run
<1>2. /\ s \o t \in Seq(Nat) /\ Len(s \o t) = Len(s) + Len(t)
      /\ \A i \in 1 .. Len(s) + Len(t) :
            (s \o t)[i] = IF i <= Len(s) THEN s[i] ELSE t[i - Len(s)]
  BY <1>1
<1>3. ASSUME NEW i \in 1 .. Len(s \o t) PROVE (s \o t)[i] = lo + i
  <2>1. CASE i <= Len(s)
    BY <1>1, <1>2, <2>1 DEF Run
  <2>2. CASE i > Len(s)
    <3>1. i - Len(s) \in 1 .. Len(t) /\ (s \o t)[i] = t[i - Len(s)]
      BY <1>1, <1>2, <2>2
    <3>2. t[i - Len(s)] = mid + (i - Len(s)) /\ Len(s) = mid - lo
      BY <3>1 DEF Run
    <3> QED BY <1>1, <3>1, <3>2
  <2> QED BY <1>1, <1>2, <2>1, <2>2
<1> QED BY <1>1, <1>2, <1>3 DEF Run

\* The next byte makes a run longer.
LEMMA RunGrows ==
    ASSUME NEW s, NEW lo, NEW hi, Run(s, lo, hi)
    PROVE  Run(Append(s, hi + 1), lo, hi + 1)
  BY DEF Run

\* A run without its first byte starts one later.
LEMMA RunFirst ==
    ASSUME NEW s, NEW lo, NEW hi, Run(s, lo, hi), s # <<>>
    PROVE  Head(s) = lo + 1 /\ Run(Tail(s), lo + 1, hi) /\ lo + 1 <= hi
  BY DEF Run

\* The n chunks f[1], f[2], ... hold the bytes a + 1 .. b, one after the other.
Chunks(f, n, a, b) ==
    \E c \in [0 .. n -> Nat] :
        /\ c[0] = a /\ c[n] = b /\ \A i \in 0 .. n : c[i] <= b
        /\ \A i \in 1 .. n : Run(f[i], c[i - 1], c[i])

\* One more chunk in a queue.
LEMMA ChunksGrow ==
    ASSUME NEW f, NEW n \in Nat, NEW a \in Nat, NEW b \in Nat, Chunks(f, n, a, b),
           NEW x, NEW d \in Nat, Run(x, b, d),
           NEW g, \A i \in 1 .. n : g[i] = f[i], g[n + 1] = x
    PROVE  Chunks(g, n + 1, a, d)
<1>1. PICK c \in [0 .. n -> Nat] :
         /\ c[0] = a /\ c[n] = b /\ \A i \in 0 .. n : c[i] <= b
         /\ \A i \in 1 .. n : Run(f[i], c[i - 1], c[i])
  BY DEF Chunks
<1> DEFINE e == [i \in 0 .. n + 1 |-> IF i = n + 1 THEN d ELSE c[i]]
<1>2. b <= d
  BY RunOf
<1>3. e \in [0 .. n + 1 -> Nat] /\ e[0] = a /\ e[n + 1] = d /\ \A i \in 0 .. n + 1 : e[i] <= d
  BY <1>1, <1>2
<1>4. ASSUME NEW i \in 1 .. n + 1 PROVE Run(g[i], e[i - 1], e[i])
  <2>1. CASE i = n + 1
    <3>1. e[i - 1] = b /\ e[i] = d /\ g[i] = x
      BY <1>1, <2>1
    <3> QED BY <3>1
  <2>2. CASE i # n + 1
    <3>1. i \in 1 .. n /\ i - 1 \in 0 .. n
      BY <2>2
    <3>2. e[i - 1] = c[i - 1] /\ e[i] = c[i] /\ g[i] = f[i]
      BY <3>1
    <3> QED BY <1>1, <3>1, <3>2
  <2> QED BY <2>1, <2>2
<1> QED BY <1>3, <1>4 DEF Chunks

\* The first chunk out of a queue.
LEMMA ChunksFirst ==
    ASSUME NEW f, NEW n \in Nat \ {0}, NEW a \in Nat, NEW b \in Nat, Chunks(f, n, a, b),
           NEW g, \A i \in 1 .. n - 1 : g[i] = f[i + 1]
    PROVE  \E m \in Nat : m <= b /\ Run(f[1], a, m) /\ Chunks(g, n - 1, m, b)
<1>1. PICK c \in [0 .. n -> Nat] :
         /\ c[0] = a /\ c[n] = b /\ \A i \in 0 .. n : c[i] <= b
         /\ \A i \in 1 .. n : Run(f[i], c[i - 1], c[i])
  BY DEF Chunks
<1> DEFINE e == [i \in 0 .. n - 1 |-> c[i + 1]]
<1>2. /\ e \in [0 .. n - 1 -> Nat] /\ e[0] = c[1] /\ e[n - 1] = b /\ c[1] \in Nat
      /\ \A i \in 0 .. n - 1 : e[i] <= b
  BY <1>1
<1>3. ASSUME NEW i \in 1 .. n - 1 PROVE Run(g[i], e[i - 1], e[i])
  <2>1. i + 1 \in 1 .. n /\ (i + 1) - 1 = i
    OBVIOUS
  <2>2. e[i - 1] = c[i] /\ e[i] = c[i + 1]
    OBVIOUS
  <2>3. Run(f[i + 1], c[(i + 1) - 1], c[i + 1])
    BY <1>1, <2>1
  <2> QED BY <2>1, <2>2, <2>3
<1> HIDE DEF e
<1>4. Chunks(g, n - 1, c[1], b)
  BY <1>2, <1>3 DEF Chunks
<1>5. Run(f[1], a, c[1]) /\ c[1] <= b
  <2>1. 1 \in 1 .. n /\ 1 - 1 = 0 /\ 1 \in 0 .. n
    OBVIOUS
  <2> QED BY <1>1, <2>1
<1> QED BY <1>2, <1>4, <1>5

\* No chunk covers nothing.
LEMMA ChunksNone ==
    ASSUME NEW f, NEW a \in Nat, NEW b \in Nat
    PROVE  Chunks(f, 0, a, b) <=> a = b
<1>1. ASSUME Chunks(f, 0, a, b) PROVE a = b
  BY <1>1 DEF Chunks
<1>2. Chunks(f, 0, a, a)
  <2> DEFINE c == [i \in 0 .. 0 |-> a]
  <2>1. /\ c \in [0 .. 0 -> Nat] /\ c[0] = a /\ \A i \in 0 .. 0 : c[i] <= a
        /\ \A i \in 1 .. 0 : Run(f[i], c[i - 1], c[i])
    OBVIOUS
  <2> HIDE DEF c
  <2> QED BY <2>1 DEF Chunks
<1> QED BY <1>1, <1>2

-----------------------------------------------------------------------------
(* BridgeRelay: from the peer to the OS thread.                            *)

Items == [ok : BOOLEAN, bytes : Seq(Nat)]

\* The bytes of each item of a queue.
Data(q) == [i \in 1 .. Len(q) |-> q[i].bytes]

\* The types of the relay, and what an item that is no data looks like; the
\* task closes only when asked to.
RelayType ==
    /\ toOs \in Seq(Items) /\ held \in Items /\ toLcore \in Seq(Seq(Nat))
    /\ txBuf \in Seq(Nat) /\ Len(txBuf) <= SocketBuffer /\ rxBuf \in Seq(Nat)
    /\ alive \in BOOLEAN /\ peerSent \in Nat /\ wrote \in Nat
    /\ (~held.ok => held.bytes = <<>>)
    /\ \A i \in 1 .. Len(toOs) : ~toOs[i].ok => toOs[i].bytes = <<>>
    /\ relay = "closing" => closeTx = "sent" \/ ~alive
    /\ relay \in {"select", "toOs", "toTcp", "closing", "done", "stopped"}

\* What the relay has received still comes, unless the task went without
\* having handed it on.
Coming == ~Gone \/ (relay = "done" /\ closeTx = "held")

\* b is the last byte in the channel.
OnItsWay(b) ==
    \E d \in Nat :
        /\ IF relay = "toOs" THEN Run(held.bytes, b, d) ELSE d = b
        /\ Run(rxBuf, d, peerSent)

\* The reader got the bytes up to l.
ToReader(l) ==
    \E a, b \in Nat :
        /\ Run(readBuf, l, a) /\ Chunks(Data(toOs), Len(toOs), a, b) /\ b <= peerSent
        /\ Coming => OnItsWay(b)

BytesIn == \E l \in Nat : Run(osRead, 0, l) /\ l <= peerSent /\ (alive => ToReader(l))

\* At the start no byte of the peer is on its way.
LEMMA InInit == Init => BytesIn
<1> SUFFICES ASSUME Init PROVE BytesIn
  OBVIOUS
<1>1. peerSent = 0
  BY DEF Init
<1>2. Run(<<>>, 0, 0) /\ 0 \in Nat /\ Len(<<>>) = 0
  BY RunEmpty
<1>3. Chunks(Data(toOs), Len(toOs), 0, 0)
  BY <1>2, ChunksNone DEF Init
<1>4. OnItsWay(0)
  BY <1>2 DEF Init, OnItsWay
<1>5. ToReader(0)
  BY <1>2, <1>3, <1>4 DEF Init, ToReader
<1> QED BY <1>1, <1>2, <1>5 DEF Init, BytesIn

\* One more item in the channel, or the first one out of it.
LEMMA DataGrows ==
    ASSUME NEW q \in Seq(Items), NEW x \in Items
    PROVE  /\ Append(q, x) \in Seq(Items) /\ Len(Append(q, x)) = Len(q) + 1
           /\ \A i \in 1 .. Len(q) : Append(q, x)[i] = q[i] /\ Data(Append(q, x))[i] = Data(q)[i]
           /\ Append(q, x)[Len(q) + 1] = x /\ Data(Append(q, x))[Len(q) + 1] = x.bytes
<1>1. /\ Append(q, x) \in Seq(Items) /\ Len(Append(q, x)) = Len(q) + 1 /\ Len(q) \in Nat
      /\ \A i \in 1 .. Len(q) : Append(q, x)[i] = q[i]
      /\ Append(q, x)[Len(q) + 1] = x
  OBVIOUS
<1> QED BY <1>1 DEF Data

\* The bytes of a channel without its first item.
LEMMA DataFirst ==
    ASSUME NEW q \in Seq(Items), q # <<>>
    PROVE  /\ Len(q) \in Nat \ {0} /\ Head(q) \in Items /\ Head(q) = q[1]
           /\ Tail(q) \in Seq(Items) /\ Len(Tail(q)) = Len(q) - 1
           /\ \A i \in 1 .. Len(q) - 1 : Tail(q)[i] = q[i + 1] /\ Data(Tail(q))[i] = Data(q)[i + 1]
           /\ Data(q)[1] = Head(q).bytes
<1>1. /\ Len(q) \in Nat \ {0} /\ Head(q) \in Items /\ Head(q) = q[1]
      /\ Tail(q) \in Seq(Items) /\ Len(Tail(q)) = Len(q) - 1
      /\ \A i \in 1 .. Len(q) - 1 : Tail(q)[i] = q[i + 1]
  OBVIOUS
<1> QED BY <1>1 DEF Data

\* At the start the relay's state has its types.
LEMMA TypeInit == Init => RelayType
<1> SUFFICES ASSUME Init PROVE RelayType
  OBVIOUS
<1>1. /\ <<>> \in Seq(Items) /\ <<>> \in Seq(Seq(Nat)) /\ <<>> \in Seq(Nat) /\ Len(<<>>) = 0
      /\ SocketBuffer \in Nat
  BY SizeAssumption
<1>2. Eof \in Items /\ Eof.ok = TRUE
  BY <1>1 DEF Eof, Chunk, Items
<1> QED BY <1>1, <1>2 DEF Init, RelayType

\* What leaving the loop leaves behind.
LEMMA Exits ==
    ASSUME RelayType, NEW how \in {"done", "stopped"}, Exit(how)
    PROVE  /\ relay' = how /\ held' = Eof /\ held' \in Items /\ held'.ok = TRUE
           /\ toLcore' = <<>> /\ toLcore' \in Seq(Seq(Nat))
           /\ txBuf' \in Seq(Nat) /\ Len(txBuf') <= SocketBuffer
           /\ txBuf' = txBuf \/ sock' = "Closed"
           /\ sock' = sock \/ sock' = "Closed"
<1>1. <<>> \in Seq(Seq(Nat)) /\ <<>> \in Seq(Nat) /\ Len(<<>>) = 0 /\ SocketBuffer \in Nat
  BY SizeAssumption
<1>2. Eof \in Items /\ Eof.ok = TRUE
  BY <1>1 DEF Eof, Chunk, Items
<1>3. txBuf' \in {txBuf, <<>>} /\ (txBuf' = txBuf \/ sock' = "Closed") /\ (sock' = sock \/ sock' = "Closed")
  BY DEF Exit
<1>4. relay' = how /\ held' = Eof /\ toLcore' = <<>>
  BY DEF Exit
<1>5. txBuf' \in Seq(Nat) /\ Len(txBuf') <= SocketBuffer
  <2>1. CASE txBuf' = txBuf
    BY <2>1 DEF RelayType
  <2>2. CASE txBuf' = <<>>
    <3>1. Len(txBuf') = 0
      BY <2>2
    <3> QED BY <1>1, <2>2, <3>1
  <2> QED BY <1>3, <2>1, <2>2
<1> QED BY <1>1, <1>2, <1>3, <1>4, <1>5

\* A turn of the write-all loop that takes n bytes.
LEMMA Slice ==
    ASSUME RelayType, NEW n, n = SendSlice(held.bytes), n > 0 \/ held.bytes = <<>>
    PROVE  n \in 0 .. Len(held.bytes) /\ n <= SocketBuffer - Len(txBuf)
<1>1. /\ held.bytes \in Seq(Nat) /\ txBuf \in Seq(Nat) /\ Len(txBuf) <= SocketBuffer
      /\ SocketBuffer \in Nat
  BY SizeAssumption DEF RelayType, Items
<1>2. Len(held.bytes) \in Nat /\ Len(txBuf) \in Nat /\ (held.bytes = <<>> => Len(held.bytes) = 0)
  BY <1>1
<1> QED BY <1>1, <1>2 DEF SendSlice, Least

\* The channel to the OS thread after tx_to_os.send.
LEMMA QueueGrows ==
    ASSUME RelayType, toOs' \in {toOs, Append(toOs, held)}
    PROVE  toOs' \in Seq(Items) /\ \A i \in 1 .. Len(toOs') : ~toOs'[i].ok => toOs'[i].bytes = <<>>
<1>1. CASE toOs' = toOs
  BY <1>1 DEF RelayType
<1>2. CASE toOs' = Append(toOs, held)
  <2>1. toOs \in Seq(Items) /\ held \in Items
    BY DEF RelayType
  <2>2. \A i \in 1 .. Len(toOs') : (i \in 1 .. Len(toOs) /\ toOs'[i] = toOs[i]) \/ toOs'[i] = held
    BY <1>2, <2>1
  <2> QED BY <1>2, <2>1, <2>2 DEF RelayType
<1> QED BY <1>1, <1>2

\* Every step keeps the types.
LEMMA TypeStep ==
    ASSUME RelayType, [Next]_vars
    PROVE  RelayType'
<1>1. /\ <<>> \in Seq(Items) /\ <<>> \in Seq(Seq(Nat)) /\ <<>> \in Seq(Nat) /\ Len(<<>>) = 0
      /\ SocketBuffer \in Nat /\ ReadSize \in Nat /\ WriteSize \in Nat /\ MaxOut \in Nat
  BY SizeAssumption
<1>2. /\ Eof \in Items /\ Eof.ok = TRUE /\ Error \in Items /\ Error.bytes = <<>>
      /\ \A s \in Seq(Nat) : Chunk(s) \in Items /\ Chunk(s).ok = TRUE /\ Chunk(s).bytes = s
  BY <1>1 DEF Eof, Error, Chunk, Items
<1>3. ASSUME NEW how \in {"done", "stopped"}, Exit(how), UNCHANGED <<alive, peerSent, wrote, rxBuf>>,
             toOs' \in {toOs, Append(toOs, held)}
      PROVE  RelayType'
  <2>1. toOs' \in Seq(Items) /\ \A i \in 1 .. Len(toOs') : ~toOs'[i].ok => toOs'[i].bytes = <<>>
    BY <1>3, QueueGrows
  <2> QED BY <1>3, <2>1, Exits DEF RelayType
<1>4. CASE RecvArm
  <2>1. Received \in Items /\ (~Received.ok => Received.bytes = <<>>)
    BY <1>2 DEF Received, RelayType
  <2> QED BY <1>1, <1>4, <2>1 DEF RecvArm, Hold, RelayType, os, peer
<1>5. CASE SendToOs
  <2>1. toOs' \in {toOs, Append(toOs, held)} /\ UNCHANGED <<alive, peerSent, wrote, rxBuf>>
    BY <1>5 DEF SendToOs, os, peer
  <2>2. CASE Exit("done")
    BY <1>3, <2>1, <2>2
  <2>3. CASE Hold(Eof, "select") /\ UNCHANGED <<toLcore, sock, txBuf>>
    <3>1. toOs' \in Seq(Items) /\ \A i \in 1 .. Len(toOs') : ~toOs'[i].ok => toOs'[i].bytes = <<>>
      BY <2>1, QueueGrows
    <3> QED BY <1>2, <2>1, <2>3, <3>1 DEF Hold, RelayType
  <2> QED BY <1>5, <2>2, <2>3 DEF SendToOs
<1>6. CASE DataArm
  <2>1. UNCHANGED <<toOs, alive, peerSent, wrote, rxBuf>>
    BY <1>6 DEF DataArm, os, peer
  <2>2. CASE Exit("done")
    BY <1>3, <2>1, <2>2
  <2>3. CASE /\ toLcore # <<>> /\ Hold(Chunk(Head(toLcore)), "toTcp") /\ toLcore' = Tail(toLcore)
             /\ UNCHANGED <<sock, txBuf>>
    <3>1. Head(toLcore) \in Seq(Nat) /\ Tail(toLcore) \in Seq(Seq(Nat))
      BY <2>3 DEF RelayType
    <3> QED BY <1>2, <2>1, <2>3, <3>1 DEF Hold, RelayType
  <2> QED BY <1>6, <2>2, <2>3 DEF DataArm
<1>7. CASE SendToTcp
  <2>1. UNCHANGED <<toOs, toLcore, alive, peerSent, wrote, rxBuf>>
    BY <1>7 DEF SendToTcp, os, peer
  <2>2. CASE Hold(Error, "toOs") /\ UNCHANGED txBuf
    BY <1>2, <2>1, <2>2 DEF Hold, RelayType
  <2>3. CASE LET n    == SendSlice(held.bytes)
                 left == StillToSend(held.bytes, n)
             IN  /\ n > 0 \/ held.bytes = <<>>
                 /\ txBuf' = txBuf \o Take(held.bytes, n)
                 /\ Hold(Chunk(left), IF left = <<>> THEN "select" ELSE "toTcp")
    <3> DEFINE n == SendSlice(held.bytes)
               left == StillToSend(held.bytes, n)
    <3>1. n \in 0 .. Len(held.bytes) /\ n <= SocketBuffer - Len(txBuf)
      BY <2>3, Slice
    <3>2. held.bytes \in Seq(Nat) /\ txBuf \in Seq(Nat)
      BY DEF RelayType, Items
    <3> HIDE DEF n
    <3>3. left \in Seq(Nat)
      BY <3>1, <3>2 DEF StillToSend, Skip
    <3>4. Take(held.bytes, n) \in Seq(Nat) /\ Len(Take(held.bytes, n)) = n
      BY <3>1, <3>2 DEF Take
    <3>5. txBuf' = txBuf \o Take(held.bytes, n) /\ Hold(Chunk(left), IF left = <<>> THEN "select" ELSE "toTcp")
      BY <2>3 DEF n
    <3> HIDE DEF left
    <3>6. txBuf' \in Seq(Nat) /\ Len(txBuf') <= SocketBuffer
      BY <1>1, <3>1, <3>2, <3>4, <3>5
    <3>7. held' \in Items /\ held'.ok = TRUE /\ relay' \in {"select", "toTcp"}
      BY <1>2, <3>3, <3>5 DEF Hold
    <3> QED BY <2>1, <3>6, <3>7 DEF RelayType
  <2> QED BY <1>7, <2>2, <2>3 DEF SendToTcp
<1>8. CASE CloseArm
  BY <1>2, <1>8 DEF CloseArm, Hold, RelayType, os, peer
<1>9. CASE CloseDone \/ LcoreStops
  <2>1. UNCHANGED <<toOs, alive, peerSent, wrote, rxBuf>>
    BY <1>9 DEF CloseDone, LcoreStops, os, peer
  <2> QED BY <1>3, <1>9, <2>1 DEF CloseDone, LcoreStops
<1>10. CASE PollWrite
  <2>1. PICK n \in 0 .. Least(WriteSize, MaxOut - wrote) :
           toLcore' = Append(toLcore, Bytes(wrote, wrote + n)) /\ wrote' = wrote + n
    BY <1>10 DEF PollWrite
  <2>2. n \in Nat /\ wrote \in Nat
    BY <1>1 DEF Least, RelayType
  <2>3. Bytes(wrote, wrote + n) \in Seq(Nat)
    BY <2>2, BytesRun DEF Run
  <2>4. UNCHANGED <<toOs, held, txBuf, rxBuf, alive, peerSent, relay, closeTx>>
    BY <1>10 DEF PollWrite, socket, peer
  <2> QED BY <2>1, <2>2, <2>3, <2>4 DEF RelayType
<1>11. ASSUME NEW n \in 0 .. ReadSize, PollRead(n) PROVE RelayType'
  <2>1. UNCHANGED <<toLcore, held, txBuf, rxBuf, alive, peerSent, wrote, relay, closeTx>>
    BY <1>11 DEF PollRead, socket, peer
  <2>2. CASE toOs' = toOs
    BY <2>1, <2>2 DEF RelayType
  <2>3. CASE toOs # <<>> /\ toOs' = Tail(toOs)
    <3>1. toOs \in Seq(Items)
      BY DEF RelayType
    <3>2. \A i \in 1 .. Len(toOs') : i + 1 \in 1 .. Len(toOs) /\ toOs'[i] = toOs[i + 1]
      BY <2>3, <3>1
    <3> QED BY <2>1, <2>3, <3>1, <3>2 DEF RelayType
  <2> QED BY <1>11, <2>2, <2>3 DEF PollRead
<1>12. CASE PollClose
  BY <1>12 DEF PollClose, RelayType, socket, peer
<1>13. CASE DropStream
  <2>1. toOs' = <<>> /\ alive' = FALSE /\ UNCHANGED <<held, toLcore, txBuf, rxBuf, peerSent, wrote, relay>>
    BY <1>13 DEF DropStream, socket, peer
  <2>2. toOs' \in Seq(Items) /\ \A i \in 1 .. Len(toOs') : ~toOs'[i].ok => toOs'[i].bytes = <<>>
    BY <1>1, <2>1
  <2> QED BY <2>1, <2>2 DEF RelayType
<1>14. CASE PeerSend
  BY <1>14 DEF PeerSend, RelayType, os
<1>15. CASE PeerReceive
  <2>1. txBuf \in Seq(Nat) /\ txBuf # <<>> /\ txBuf' = Tail(txBuf) /\ Len(txBuf) <= SocketBuffer
    BY <1>15 DEF PeerReceive, RelayType
  <2>2. txBuf' \in Seq(Nat) /\ Len(txBuf') <= SocketBuffer
    BY <1>1, <2>1
  <2> QED BY <1>15, <2>2 DEF PeerReceive, RelayType, os
<1>16. CASE PeerFin \/ PeerAcksFin
  BY <1>16 DEF PeerFin, PeerAcksFin, RelayType, os, peer
<1>17. CASE PeerReset
  <2>1. Len(txBuf') <= SocketBuffer
    BY <1>1, <1>17 DEF PeerReset
  <2> QED BY <1>1, <1>17, <2>1 DEF PeerReset, RelayType, os, peer
<1>18. CASE UNCHANGED vars
  BY <1>18 DEF vars, RelayType, os, socket, peer
<1> QED BY <1>4, <1>5, <1>6, <1>7, <1>8, <1>9, <1>10, <1>11, <1>12, <1>13, <1>14, <1>15,
           <1>16, <1>17, <1>18 DEF Next, Relay, OsThread, Read, Peer

\* poll_read hands over some of the bytes and keeps the others.
LEMMA HandedOver ==
    ASSUME NEW l \in Nat, NEW a \in Nat, NEW chunk, Run(osRead, 0, l), Run(chunk, l, a),
           NEW n \in Nat, HandOver(chunk, n)
    PROVE  \E m \in Nat : l <= m /\ m <= a /\ Run(osRead', 0, m) /\ Run(readBuf', m, a)
<1> DEFINE k == Least(n, Len(chunk))
<1>1. k \in 0 .. Len(chunk)
  <2>1. Len(chunk) \in Nat
    BY DEF Run
  <2> QED BY <2>1 DEF Least
<1>2. osRead' = osRead \o Take(chunk, k) /\ readBuf' = Skip(chunk, k)
  BY DEF HandOver
<1> HIDE DEF k
<1>3. /\ Run(Take(chunk, k), l, l + k) /\ Run(Skip(chunk, k), l + k, a)
      /\ l + k \in Nat /\ l + k <= a /\ k \in Nat
  BY <1>1, RunCut
<1>4. Run(osRead', 0, l + k)
  BY <1>2, <1>3, RunJoin
<1>5. l <= l + k
  BY <1>3
<1> QED BY <1>2, <1>3, <1>4, <1>5

\* That is a step of the pipe, or none.
LEMMA ReaderStep ==
    ASSUME NEW l \in Nat, NEW m \in Nat, Run(osRead, 0, l), Run(osRead', 0, m), l <= m,
           peerSent \in Nat, m <= peerSent, peerSent' = peerSent
    PROVE  [Ingress!Write \/ Ingress!Read]_Ingress!vars
<1>1. osRead = Bytes(0, l) /\ osRead' = Bytes(0, m) /\ Len(osRead) = l
  BY RunOf DEF Run
<1>2. CASE l = m
  BY <1>1, <1>2 DEF Ingress!vars
<1>3. CASE l # m
  <2>1. m \in (Len(osRead) + 1) .. peerSent
    BY <1>1, <1>3
  <2>2. Bytes(0, m) = Ingress!Written(m)
    BY DEF Bytes, Ingress!Written
  <2> QED BY <1>1, <2>1, <2>2 DEF Ingress!Read
<1> QED BY <1>2, <1>3

\* Every step keeps the runs from the peer to the reader, and is a step of the
\* pipe between them, or none.
LEMMA InStep ==
    ASSUME RelayType, BytesIn, [Next]_vars
    PROVE  BytesIn' /\ [Ingress!Write \/ Ingress!Read]_Ingress!vars
<1> DEFINE Goal == BytesIn' /\ [Ingress!Write \/ Ingress!Read]_Ingress!vars
<1>1. PICK l \in Nat : Run(osRead, 0, l) /\ l <= peerSent /\ (alive => ToReader(l))
  BY DEF BytesIn
<1>2. ASSUME UNCHANGED <<osRead, peerSent>>, alive' => ToReader(l)' PROVE Goal
  BY <1>1, <1>2 DEF BytesIn, Ingress!vars
<1>3. ASSUME UNCHANGED <<osRead, readBuf, toOs, rxBuf, peerSent>>, alive' => alive,
             Coming' => Coming /\ ((relay' = "toOs") = (relay = "toOs"))
                              /\ (relay = "toOs" => held' = held)
      PROVE  Goal
  <2>1. ASSUME alive' PROVE ToReader(l)'
    <3>1. PICK a \in Nat, b \in Nat :
             /\ Run(readBuf, l, a) /\ Chunks(Data(toOs), Len(toOs), a, b) /\ b <= peerSent
             /\ Coming => OnItsWay(b)
      BY <1>1, <1>3, <2>1 DEF ToReader
    <3>2. Coming' => OnItsWay(b)'
      BY <1>3, <3>1 DEF OnItsWay
    <3> QED BY <1>3, <3>1, <3>2 DEF ToReader
  <2> QED BY <1>2, <1>3, <2>1
<1>4. ASSUME UNCHANGED <<osRead, peerSent>>, ~alive' PROVE Goal
  BY <1>2, <1>4
<1>5. CASE RecvArm
  <2>1. /\ relay = "select" /\ relay' = "toOs" /\ held' = Received /\ rxBuf' = <<>>
        /\ UNCHANGED <<osRead, readBuf, toOs, peerSent, alive>>
    BY <1>5 DEF RecvArm, Hold, os, peer
  <2>2. ASSUME alive PROVE ToReader(l)'
    <3>1. PICK a \in Nat, b \in Nat :
             /\ Run(readBuf, l, a) /\ Chunks(Data(toOs), Len(toOs), a, b) /\ b <= peerSent
             /\ Coming => OnItsWay(b)
      BY <1>1, <2>2 DEF ToReader
    <3>2. Run(rxBuf, b, peerSent)
      BY <2>1, <3>1 DEF Coming, Gone, OnItsWay
    <3>3. held'.bytes = rxBuf
      BY <2>1 DEF Received, Chunk, Eof, Error
    <3>4. peerSent \in Nat /\ Run(<<>>, peerSent, peerSent)
      BY RunEmpty DEF RelayType
    <3>5. OnItsWay(b)'
      BY <2>1, <3>2, <3>3, <3>4 DEF OnItsWay
    <3> QED BY <2>1, <3>1, <3>5 DEF ToReader
  <2> QED BY <1>2, <2>1, <2>2
<1>6. CASE SendToOs
  <2>1. relay = "toOs" /\ UNCHANGED <<osRead, readBuf, rxBuf, peerSent, alive, closeTx>>
    BY <1>6 DEF SendToOs, os, peer
  <2>2. ASSUME alive PROVE ToReader(l)'
    <3>1. PICK a \in Nat, b \in Nat :
             /\ Run(readBuf, l, a) /\ Chunks(Data(toOs), Len(toOs), a, b) /\ b <= peerSent
             /\ Coming => OnItsWay(b)
      BY <1>1, <2>2 DEF ToReader
    <3>2. PICK d \in Nat : Run(held.bytes, b, d) /\ Run(rxBuf, d, peerSent)
      BY <2>1, <3>1 DEF Coming, Gone, OnItsWay
    <3>3. toOs' = Append(toOs, held) /\ relay' \in {"select", "done"}
      BY <1>6, <2>2 DEF SendToOs, Hold, Exit
    <3>4. /\ Len(toOs) \in Nat /\ Len(toOs') = Len(toOs) + 1
          /\ \A i \in 1 .. Len(toOs) : Data(toOs')[i] = Data(toOs)[i]
          /\ Data(toOs')[Len(toOs) + 1] = held.bytes
      BY <3>3, DataGrows DEF RelayType
    <3>5. Chunks(Data(toOs'), Len(toOs'), a, d)
      BY <3>1, <3>2, <3>4, ChunksGrow
    <3>6. d <= peerSent
      BY <3>2, RunOf DEF RelayType
    <3>7. OnItsWay(d)'
      BY <2>1, <3>2, <3>3 DEF OnItsWay
    <3> QED BY <2>1, <3>1, <3>5, <3>6, <3>7 DEF ToReader
  <2> QED BY <1>2, <2>1, <2>2
<1>7. CASE DataArm
  <2>1. relay = "select" /\ UNCHANGED <<osRead, readBuf, toOs, rxBuf, peerSent, alive, closeTx>>
    BY <1>7 DEF DataArm, os, peer
  <2>2. CASE relay' = "toTcp"
    BY <1>3, <2>1, <2>2 DEF Coming, Gone
  <2>3. CASE ~alive
    BY <1>4, <2>1, <2>3
  <2> QED BY <1>7, <2>2, <2>3 DEF DataArm, Hold
<1>8. CASE SendToTcp
  <2>1. relay = "toTcp" /\ UNCHANGED <<osRead, readBuf, toOs, rxBuf, peerSent, alive>>
    BY <1>8 DEF SendToTcp, os, peer
  <2>2. CASE relay' \in {"select", "toTcp"}
    BY <1>3, <2>1, <2>2 DEF Coming, Gone
  <2>3. CASE relay' = "toOs" /\ held' = Error
    <3>1. ASSUME alive PROVE ToReader(l)'
      <4>1. PICK a \in Nat, b \in Nat :
               /\ Run(readBuf, l, a) /\ Chunks(Data(toOs), Len(toOs), a, b) /\ b <= peerSent
               /\ Coming => OnItsWay(b)
        BY <1>1, <3>1 DEF ToReader
      <4>2. Run(rxBuf, b, peerSent)
        BY <2>1, <4>1 DEF Coming, Gone, OnItsWay
      <4>3. Run(held'.bytes, b, b)
        BY <2>3, RunEmpty DEF Error
      <4>4. OnItsWay(b)'
        BY <2>1, <2>3, <4>2, <4>3 DEF OnItsWay
      <4> QED BY <2>1, <4>1, <4>4 DEF ToReader
    <3> QED BY <1>2, <2>1, <3>1
  <2> QED BY <1>8, <2>2, <2>3 DEF SendToTcp, Hold
<1>9. CASE CloseArm
  <2>1. /\ relay = "select" /\ relay' = "closing"
        /\ UNCHANGED <<osRead, readBuf, toOs, rxBuf, peerSent, alive>>
    BY <1>9 DEF CloseArm, Hold, os, peer
  <2> QED BY <1>3, <2>1 DEF Coming, Gone
<1>10. CASE CloseDone
  <2>1. /\ relay = "closing" /\ relay' = "done"
        /\ UNCHANGED <<osRead, readBuf, toOs, rxBuf, peerSent, alive, closeTx>>
    BY <1>10 DEF CloseDone, Exit, os, peer
  <2>2. closeTx = "sent" \/ ~alive
    BY <2>1 DEF RelayType
  <2>3. closeTx = "sent" => ~Coming'
    BY <2>1 DEF Coming, Gone
  <2> QED BY <1>3, <1>4, <2>1, <2>2, <2>3
<1>11. CASE LcoreStops
  <2>1. relay' = "stopped" /\ UNCHANGED <<osRead, readBuf, toOs, rxBuf, peerSent, alive>>
    BY <1>11 DEF LcoreStops, Exit, os, peer
  <2> QED BY <1>3, <2>1 DEF Coming, Gone
<1>12. CASE PollWrite \/ PeerReceive \/ PeerFin \/ PeerAcksFin \/ PeerReset \/ UNCHANGED vars
  <2>1. UNCHANGED <<osRead, readBuf, toOs, rxBuf, peerSent, alive, closeTx, relay, held>>
    BY <1>12 DEF PollWrite, PeerReceive, PeerFin, PeerAcksFin, PeerReset, vars, os, socket, peer
  <2> QED BY <1>3, <2>1 DEF Coming, Gone
<1>13. CASE PollClose
  <2>1. closeTx' = "sent" /\ UNCHANGED <<osRead, readBuf, toOs, rxBuf, peerSent, alive, relay, held>>
    BY <1>13 DEF PollClose, socket, peer
  <2> QED BY <1>3, <2>1 DEF Coming, Gone
<1>14. CASE DropStream
  BY <1>4, <1>14 DEF DropStream, peer
<1>15. CASE PeerSend
  <2>1. /\ peerSent' = peerSent + 1 /\ rxBuf' = Append(rxBuf, peerSent + 1)
        /\ UNCHANGED <<osRead, readBuf, toOs, alive, closeTx, relay, held>>
    BY <1>15 DEF PeerSend, os
  <2>2. peerSent \in Nat /\ peerSent + 1 \in Nat /\ peerSent + 1 > peerSent /\ l <= peerSent + 1
    BY <1>1 DEF RelayType
  <2>3. ASSUME alive PROVE ToReader(l)'
    <3>1. PICK a \in Nat, b \in Nat :
             /\ Run(readBuf, l, a) /\ Chunks(Data(toOs), Len(toOs), a, b) /\ b <= peerSent
             /\ Coming => OnItsWay(b)
      BY <1>1, <2>3 DEF ToReader
    <3>2. Coming' => OnItsWay(b)'
      <4> SUFFICES ASSUME Coming' PROVE OnItsWay(b)'
        OBVIOUS
      <4>1. PICK d \in Nat :
               /\ IF relay = "toOs" THEN Run(held.bytes, b, d) ELSE d = b
               /\ Run(rxBuf, d, peerSent)
        BY <2>1, <3>1 DEF Coming, Gone, OnItsWay
      <4>2. Run(rxBuf', d, peerSent')
        BY <2>1, <4>1, RunGrows
      <4> QED BY <2>1, <4>1, <4>2 DEF OnItsWay
    <3>3. b <= peerSent'
      BY <2>1, <2>2, <3>1
    <3> QED BY <2>1, <3>1, <3>2, <3>3 DEF ToReader
  <2>4. BytesIn'
    BY <1>1, <2>1, <2>2, <2>3 DEF BytesIn
  <2> QED BY <2>1, <2>2, <2>4 DEF Ingress!Write
<1>16. ASSUME NEW n \in 0 .. ReadSize, PollRead(n) PROVE Goal
  <2>1. n \in Nat /\ peerSent \in Nat /\ toOs \in Seq(Items)
    BY SizeAssumption DEF RelayType
  <2>2. alive /\ UNCHANGED <<rxBuf, peerSent, alive, closeTx, relay, held>>
    BY <1>16 DEF PollRead, socket, peer
  <2>3. Coming' = Coming /\ \A b \in Nat : OnItsWay(b)' = OnItsWay(b)
    BY <2>2 DEF Coming, Gone, OnItsWay
  <2>4. PICK a \in Nat, b \in Nat :
           /\ Run(readBuf, l, a) /\ Chunks(Data(toOs), Len(toOs), a, b) /\ b <= peerSent
           /\ Coming => OnItsWay(b)
    BY <1>1, <2>2 DEF ToReader
  <2>5. ASSUME NEW m \in Nat, l <= m, m <= peerSent, Run(osRead', 0, m), ToReader(m)' PROVE Goal
    <3>1. BytesIn'
      BY <2>2, <2>5 DEF BytesIn
    <3> QED BY <1>1, <2>1, <2>2, <2>5, <3>1, ReaderStep
  <2>6. CASE readBuf # <<>> /\ HandOver(readBuf, n) /\ UNCHANGED toOs
    <3>1. PICK m \in Nat : l <= m /\ m <= a /\ Run(osRead', 0, m) /\ Run(readBuf', m, a)
      BY <1>1, <2>1, <2>4, <2>6, HandedOver
    <3>2. a <= b
      BY <2>4 DEF Chunks
    <3>3. ToReader(m)'
      BY <2>2, <2>3, <2>4, <2>6, <3>1 DEF ToReader
    <3>4. m <= peerSent
      BY <2>1, <2>4, <3>1, <3>2
    <3> QED BY <2>5, <3>1, <3>3, <3>4
  <2>7. CASE readBuf = <<>> /\ toOs # <<>> /\ toOs' = Tail(toOs)
    <3>1. a = l
      BY <2>4, <2>7, RunOf
    <3>2. /\ Len(toOs) \in Nat \ {0} /\ Len(toOs') = Len(toOs) - 1 /\ Head(toOs) = toOs[1]
          /\ \A i \in 1 .. Len(toOs) - 1 : Data(toOs')[i] = Data(toOs)[i + 1]
          /\ Data(toOs)[1] = Head(toOs).bytes /\ Head(toOs) \in Items
      BY <2>1, <2>7, DataFirst
    <3>3. PICK e \in Nat :
             e <= b /\ Run(Head(toOs).bytes, a, e) /\ Chunks(Data(toOs'), Len(toOs'), e, b)
      <4> DEFINE f == Data(toOs)
                 g == Data(toOs')
                 n0 == Len(toOs)
      <4>1. /\ n0 \in Nat \ {0} /\ Chunks(f, n0, a, b) /\ (\A i \in 1 .. n0 - 1 : g[i] = f[i + 1])
        BY <2>4, <3>2
      <4> HIDE DEF f, g, n0
      <4>2. \E m \in Nat : m <= b /\ Run(f[1], a, m) /\ Chunks(g, n0 - 1, m, b)
        BY <4>1, ChunksFirst
      <4> QED BY <3>2, <4>2 DEF f, g, n0
    <3>4. CASE LoopGoesOn(Head(toOs)) /\ HandOver(Head(toOs).bytes, n)
      <4>1. PICK m \in Nat : l <= m /\ m <= e /\ Run(osRead', 0, m) /\ Run(readBuf', m, e)
        BY <1>1, <2>1, <3>1, <3>3, <3>4, HandedOver
      <4>2. ToReader(m)'
        BY <2>2, <2>3, <2>4, <3>3, <4>1 DEF ToReader
      <4>3. m <= peerSent
        BY <2>1, <2>4, <3>3, <4>1
      <4> QED BY <2>5, <4>1, <4>2, <4>3
    <3>5. CASE ~LoopGoesOn(Head(toOs)) /\ UNCHANGED <<osRead, readBuf>>
      <4>1. Head(toOs).bytes = <<>>
        BY <3>2, <3>5 DEF LoopGoesOn, RelayType
      <4>2. e = a
        BY <3>3, <4>1, RunOf
      <4>3. ToReader(l)'
        BY <2>2, <2>3, <2>4, <3>3, <3>5, <4>2 DEF ToReader
      <4> QED BY <1>2, <2>2, <3>5, <4>3
    <3> QED BY <1>16, <2>7, <3>4, <3>5 DEF PollRead
  <2>8. CASE UNCHANGED <<osRead, readBuf, toOs>>
    BY <1>3, <2>2, <2>3, <2>8
  <2> QED BY <1>16, <2>6, <2>7, <2>8 DEF PollRead
<1> QED BY <1>5, <1>6, <1>7, <1>8, <1>9, <1>10, <1>11, <1>12, <1>13, <1>14, <1>15, <1>16
        DEF Next, Relay, OsThread, Read, Peer

-----------------------------------------------------------------------------
(* BridgeRelay: from the OS thread to the peer.                            *)

\* What was written still goes out: the task has not gone, nor failed.
Flowing == ~Gone /\ ~(relay = "toOs" /\ ~held.ok)

\* b is the last byte in the send buffer.
FromWriter(b) ==
    \E a \in Nat :
        /\ IF relay = "toTcp" THEN Run(held.bytes, b, a) ELSE a = b
        /\ Chunks(toLcore, Len(toLcore), a, wrote)

\* The peer got the bytes up to l.
ToPeer(l) ==
    \E b \in Nat : Run(txBuf, l, b) /\ b <= wrote /\ (Flowing => FromWriter(b))

BytesOut ==
    \E l \in Nat : Run(peerGot, 0, l) /\ l <= wrote /\ (sock # "Closed" => ToPeer(l))

\* At the start no byte to the peer is on its way.
LEMMA OutInit == Init => BytesOut
<1> SUFFICES ASSUME Init PROVE BytesOut
  OBVIOUS
<1>1. Run(<<>>, 0, 0) /\ 0 \in Nat /\ Len(<<>>) = 0
  BY RunEmpty
<1>2. Chunks(toLcore, Len(toLcore), 0, 0)
  BY <1>1, ChunksNone DEF Init
<1>3. FromWriter(0)
  BY <1>1, <1>2 DEF Init, FromWriter
<1>4. ToPeer(0)
  BY <1>1, <1>3 DEF Init, ToPeer
<1> QED BY <1>1, <1>4 DEF Init, BytesOut

\* A byte that reaches the peer is a step of the pipe.
LEMMA PeerStep ==
    ASSUME NEW l \in Nat, Run(peerGot, 0, l), Run(peerGot', 0, l + 1), wrote \in Nat,
           l + 1 <= wrote, wrote' = wrote
    PROVE  [Egress!Write \/ Egress!Read]_Egress!vars
<1>1. peerGot' = Bytes(0, l + 1) /\ Len(peerGot) = l
  BY RunOf DEF Run
<1>2. l + 1 \in (Len(peerGot) + 1) .. wrote
  BY <1>1
<1>3. Bytes(0, l + 1) = Egress!Written(l + 1)
  BY DEF Bytes, Egress!Written
<1> QED BY <1>1, <1>2, <1>3 DEF Egress!Read

\* Every step keeps the runs from the writer to the peer, and is a step of the
\* pipe between them, or none.
LEMMA OutStep ==
    ASSUME RelayType, BytesOut, [Next]_vars
    PROVE  BytesOut' /\ [Egress!Write \/ Egress!Read]_Egress!vars
<1> DEFINE Goal == BytesOut' /\ [Egress!Write \/ Egress!Read]_Egress!vars
<1>1. PICK l \in Nat : Run(peerGot, 0, l) /\ l <= wrote /\ (sock # "Closed" => ToPeer(l))
  BY DEF BytesOut
<1>2. ASSUME UNCHANGED <<peerGot, wrote>>, sock' # "Closed" => ToPeer(l)' PROVE Goal
  BY <1>1, <1>2 DEF BytesOut, Egress!vars
<1>3. ASSUME UNCHANGED <<peerGot, wrote, txBuf, toLcore>>, sock' # "Closed" => sock # "Closed",
             Flowing' => Flowing /\ ((relay' = "toTcp") = (relay = "toTcp"))
                                /\ (relay = "toTcp" => held' = held)
      PROVE  Goal
  <2>1. ASSUME sock' # "Closed" PROVE ToPeer(l)'
    <3>1. PICK b \in Nat : Run(txBuf, l, b) /\ b <= wrote /\ (Flowing => FromWriter(b))
      BY <1>1, <1>3, <2>1 DEF ToPeer
    <3>2. Flowing' => FromWriter(b)'
      BY <1>3, <3>1 DEF FromWriter
    <3> QED BY <1>3, <3>1, <3>2 DEF ToPeer
  <2> QED BY <1>2, <1>3, <2>1
<1>4. ASSUME NEW how \in {"done", "stopped"}, Exit(how), UNCHANGED <<peerGot, wrote>> PROVE Goal
  <2>1. /\ relay' = how /\ (txBuf' = txBuf \/ sock' = "Closed")
        /\ (sock' = sock \/ sock' = "Closed")
    BY <1>4, Exits
  <2>2. ~Flowing'
    BY <2>1 DEF Flowing, Gone
  <2>3. ASSUME sock' # "Closed" PROVE ToPeer(l)'
    BY <1>1, <1>4, <2>1, <2>2, <2>3 DEF ToPeer
  <2> QED BY <1>2, <1>4, <2>3
<1>5. CASE RecvArm
  <2>1. /\ relay = "select" /\ relay' = "toOs" /\ UNCHANGED <<peerGot, wrote, txBuf, toLcore, sock>>
    BY <1>5 DEF RecvArm, Hold, os, peer
  <2> QED BY <1>3, <2>1 DEF Flowing, Gone
<1>6. CASE SendToOs
  <2>1. relay = "toOs" /\ UNCHANGED <<peerGot, wrote>>
    BY <1>6 DEF SendToOs, os, peer
  <2>2. CASE Exit("done")
    BY <1>4, <2>1, <2>2
  <2>3. CASE LoopGoesOn(held) /\ Hold(Eof, "select") /\ UNCHANGED <<toLcore, sock, txBuf>>
    BY <1>3, <2>1, <2>3 DEF LoopGoesOn, Hold, Flowing, Gone
  <2> QED BY <1>6, <2>2, <2>3 DEF SendToOs
<1>7. CASE DataArm
  <2>1. relay = "select" /\ UNCHANGED <<peerGot, wrote>>
    BY <1>7 DEF DataArm, os, peer
  <2>2. CASE Exit("done")
    BY <1>4, <2>1, <2>2
  <2>3. CASE /\ toLcore # <<>> /\ Hold(Chunk(Head(toLcore)), "toTcp") /\ toLcore' = Tail(toLcore)
             /\ UNCHANGED <<sock, txBuf>>
    <3>1. ASSUME sock # "Closed" PROVE ToPeer(l)'
      <4>1. PICK b \in Nat : Run(txBuf, l, b) /\ b <= wrote /\ FromWriter(b)
        BY <1>1, <2>1, <3>1 DEF ToPeer, Flowing, Gone
      <4>2. Chunks(toLcore, Len(toLcore), b, wrote)
        BY <2>1, <4>1 DEF FromWriter
      <4> DEFINE n == Len(toLcore)
      <4>3. /\ n \in Nat \ {0} /\ Len(toLcore') = n - 1 /\ wrote \in Nat /\ Head(toLcore) = toLcore[1]
            /\ \A i \in 1 .. n - 1 : toLcore'[i] = toLcore[i + 1]
        BY <2>3 DEF RelayType
      <4> HIDE DEF n
      <4>4. PICK a \in Nat : a <= wrote /\ Run(toLcore[1], b, a) /\ Chunks(toLcore', n - 1, a, wrote)
        BY <4>2, <4>3, ChunksFirst DEF n
      <4>5. held'.bytes = toLcore[1] /\ relay' = "toTcp"
        BY <2>3, <4>3 DEF Hold, Chunk
      <4>6. FromWriter(b)'
        BY <2>1, <4>3, <4>4, <4>5 DEF FromWriter
      <4> QED BY <2>1, <2>3, <4>1, <4>6 DEF ToPeer
    <3> QED BY <1>2, <2>1, <2>3, <3>1
  <2> QED BY <1>7, <2>2, <2>3 DEF DataArm
<1>8. CASE SendToTcp
  <2>1. relay = "toTcp" /\ UNCHANGED <<peerGot, wrote, toLcore, sock>>
    BY <1>8 DEF SendToTcp, os, peer
  <2>2. CASE Hold(Error, "toOs") /\ UNCHANGED txBuf
    BY <1>3, <2>1, <2>2 DEF Hold, Error, Flowing, Gone
  <2>3. CASE LET n    == SendSlice(held.bytes)
                 left == StillToSend(held.bytes, n)
             IN  /\ n > 0 \/ held.bytes = <<>>
                 /\ txBuf' = txBuf \o Take(held.bytes, n)
                 /\ Hold(Chunk(left), IF left = <<>> THEN "select" ELSE "toTcp")
    <3> DEFINE n == SendSlice(held.bytes)
               left == StillToSend(held.bytes, n)
    <3>1. n \in 0 .. Len(held.bytes)
      BY <2>3, Slice
    <3>2. txBuf' = txBuf \o Take(held.bytes, n) /\ Hold(Chunk(left), IF left = <<>> THEN "select" ELSE "toTcp")
      BY <2>3
    <3>3. left = Skip(held.bytes, n)
      BY DEF StillToSend
    <3> HIDE DEF n, left
    <3>4. held'.bytes = left /\ relay' = IF left = <<>> THEN "select" ELSE "toTcp"
      BY <3>2 DEF Hold, Chunk
    <3>5. ASSUME sock # "Closed" PROVE ToPeer(l)'
      <4>1. PICK b \in Nat : Run(txBuf, l, b) /\ b <= wrote /\ FromWriter(b)
        BY <1>1, <2>1, <3>5 DEF ToPeer, Flowing, Gone
      <4>2. PICK a \in Nat : Run(held.bytes, b, a) /\ Chunks(toLcore, Len(toLcore), a, wrote)
        BY <2>1, <4>1 DEF FromWriter
      <4>3. a <= wrote /\ wrote \in Nat
        BY <4>2 DEF Chunks, RelayType
      <4>4. /\ Run(Take(held.bytes, n), b, b + n) /\ Run(left, b + n, a)
            /\ b + n \in Nat /\ b + n <= a
        BY <3>1, <3>3, <4>2, RunCut
      <4>5. Run(txBuf', l, b + n)
        BY <3>2, <4>1, <4>4, RunJoin
      <4>6. b + n <= wrote
        BY <4>3, <4>4
      <4>7. left = <<>> <=> b + n = a
        BY <4>4, RunOf
      <4>8. PICK e \in Nat :
               Run(txBuf', l, e) /\ e <= wrote /\ Run(left, e, a) /\ (left = <<>> <=> e = a)
        BY <4>4, <4>5, <4>6, <4>7
      <4>9. CASE left = <<>>
        <5>1. relay' = "select" /\ e = a
          BY <3>4, <4>8, <4>9
        <5>2. FromWriter(e)'
          BY <2>1, <4>2, <5>1 DEF FromWriter
        <5> QED BY <2>1, <4>8, <5>2 DEF ToPeer
      <4>10. CASE left # <<>>
        <5>1. relay' = "toTcp" /\ Run(held'.bytes, e, a)
          BY <3>4, <4>8, <4>10
        <5>2. FromWriter(e)'
          BY <2>1, <4>2, <5>1 DEF FromWriter
        <5> QED BY <2>1, <4>8, <5>2 DEF ToPeer
      <4> QED BY <4>9, <4>10
    <3> QED BY <1>2, <2>1, <3>5
  <2> QED BY <1>8, <2>2, <2>3 DEF SendToTcp
<1>9. CASE CloseArm
  <2>1. /\ relay = "select" /\ relay' = "closing" /\ UNCHANGED <<peerGot, wrote, txBuf, toLcore>>
        /\ sock' = Shutdown
    BY <1>9 DEF CloseArm, Hold, os, peer
  <2>2. sock' # "Closed" => sock # "Closed"
    BY <2>1 DEF Shutdown
  <2> QED BY <1>3, <2>1, <2>2 DEF Flowing, Gone
<1>10. CASE CloseDone \/ LcoreStops
  BY <1>4, <1>10 DEF CloseDone, LcoreStops, os, peer
<1>11. CASE PollWrite
  <2>1. PICK n \in 0 .. Least(WriteSize, MaxOut - wrote) :
           toLcore' = Append(toLcore, Bytes(wrote, wrote + n)) /\ wrote' = wrote + n
    BY <1>11 DEF PollWrite
  <2>2. n \in Nat /\ wrote \in Nat /\ wrote + n \in Nat /\ wrote <= wrote + n
    BY SizeAssumption DEF Least, RelayType
  <2>3. UNCHANGED <<peerGot, txBuf, relay, held, sock>>
    BY <1>11 DEF PollWrite, socket, peer
  <2>4. ASSUME sock # "Closed" PROVE ToPeer(l)'
    <3>1. PICK b \in Nat : Run(txBuf, l, b) /\ b <= wrote /\ (Flowing => FromWriter(b))
      BY <1>1, <2>4 DEF ToPeer
    <3>2. ASSUME Flowing PROVE FromWriter(b)'
      <4>1. PICK a \in Nat :
               /\ IF relay = "toTcp" THEN Run(held.bytes, b, a) ELSE a = b
               /\ Chunks(toLcore, Len(toLcore), a, wrote)
        BY <3>1, <3>2 DEF FromWriter
      <4>2. Run(Bytes(wrote, wrote + n), wrote, wrote + n)
        BY <2>2, BytesRun
      <4>3. /\ Len(toLcore) \in Nat /\ Len(toLcore') = Len(toLcore) + 1
            /\ \A i \in 1 .. Len(toLcore) : toLcore'[i] = toLcore[i]
            /\ toLcore'[Len(toLcore) + 1] = Bytes(wrote, wrote + n)
        BY <2>1 DEF RelayType
      <4>4. Chunks(toLcore', Len(toLcore'), a, wrote + n)
        <5> DEFINE f == toLcore
                   g == toLcore'
                   k == Len(toLcore)
                   x == Bytes(wrote, wrote + n)
                   d == wrote + n
        <5>1. /\ k \in Nat /\ wrote \in Nat /\ d \in Nat /\ Chunks(f, k, a, wrote) /\ Run(x, wrote, d)
              /\ (\A i \in 1 .. k : g[i] = f[i]) /\ g[k + 1] = x
          BY <2>2, <4>1, <4>2, <4>3
        <5> HIDE DEF f, g, k, x, d
        <5>2. Chunks(g, k + 1, a, d)
          BY <5>1, ChunksGrow
        <5> QED BY <4>3, <5>2 DEF g, k, d
      <4> QED BY <2>1, <2>3, <4>1, <4>4 DEF FromWriter
    <3>3. b <= wrote' /\ (Flowing' => Flowing)
      BY <2>1, <2>2, <2>3, <3>1 DEF Flowing, Gone
    <3> QED BY <2>3, <3>1, <3>2, <3>3 DEF ToPeer
  <2>5. l <= wrote'
    BY <1>1, <2>1, <2>2
  <2>6. BytesOut'
    BY <1>1, <2>3, <2>4, <2>5 DEF BytesOut
  <2>7. CASE n = 0
    <3>1. wrote' = wrote
      BY <2>1, <2>2, <2>7
    <3> QED BY <2>3, <2>6, <3>1 DEF Egress!vars
  <2>8. CASE n # 0
    <3>1. wrote' \in Nat /\ wrote' > wrote
      BY <2>1, <2>2, <2>8
    <3> QED BY <2>3, <2>6, <3>1 DEF Egress!Write
  <2> QED BY <2>7, <2>8
<1>12. CASE Read \/ PollClose \/ DropStream \/ PeerSend \/ PeerFin \/ PeerAcksFin \/ UNCHANGED vars
  <2>1. UNCHANGED <<peerGot, wrote, txBuf, toLcore, relay, held>> /\ (sock' # "Closed" => sock # "Closed")
    BY <1>12 DEF Read, PollRead, PollClose, DropStream, PeerSend, PeerFin, PeerAcksFin, vars, os,
                 socket, peer
  <2> QED BY <1>3, <2>1 DEF Flowing, Gone
<1>13. CASE PeerReceive
  <2>1. /\ sock # "Closed" /\ txBuf # <<>> /\ peerGot' = Append(peerGot, Head(txBuf))
        /\ txBuf' = Tail(txBuf) /\ UNCHANGED <<wrote, toLcore, relay, held, sock>>
    BY <1>13 DEF PeerReceive, os
  <2>2. PICK b \in Nat : Run(txBuf, l, b) /\ b <= wrote /\ (Flowing => FromWriter(b))
    BY <1>1, <2>1 DEF ToPeer
  <2>3. Head(txBuf) = l + 1 /\ Run(txBuf', l + 1, b) /\ l + 1 <= b
    BY <2>1, <2>2, RunFirst
  <2>4. Run(peerGot', 0, l + 1)
    BY <1>1, <2>1, <2>3, RunGrows
  <2>5. (Flowing' => Flowing) /\ (FromWriter(b) => FromWriter(b)')
    BY <2>1 DEF Flowing, Gone, FromWriter
  <2>6. l + 1 \in Nat /\ l + 1 <= wrote /\ wrote \in Nat
    BY <2>2, <2>3 DEF RelayType
  <2>7. ToPeer(l + 1)'
    BY <2>1, <2>2, <2>3, <2>5 DEF ToPeer
  <2>8. BytesOut'
    BY <2>1, <2>4, <2>6, <2>7 DEF BytesOut
  <2> QED BY <1>1, <2>1, <2>4, <2>6, <2>8, PeerStep
<1>14. CASE PeerReset
  BY <1>2, <1>14 DEF PeerReset, os, peer
<1> QED BY <1>5, <1>6, <1>7, <1>8, <1>9, <1>10, <1>11, <1>12, <1>13, <1>14
        DEF Next, Relay, OsThread, Peer

-----------------------------------------------------------------------------
(* BridgeRelay: the end of the stream.                                     *)

\* An EOF mark is made only after the last byte, a mark or an error is the last
\* item in the channel, and a task that ended by itself leaves one there until
\* the reader has met it.
EndMarks ==
    /\ relay = "toOs" /\ held.ok /\ held.bytes = <<>> => finSeen /\ rxBuf = <<>>
    /\ \A i \in 1 .. Len(toOs) : ~LoopGoesOn(toOs[i]) => i = Len(toOs) /\ relay = "done"
    /\ \A i \in 1 .. Len(toOs) : toOs[i].ok /\ toOs[i].bytes = <<>> => finSeen /\ rxBuf = <<>>
    /\ relay = "done" /\ alive /\ closeTx = "held" /\ osSaw = "open"
          => toOs # <<>> /\ ~LoopGoesOn(toOs[Len(toOs)])

\* At the start nothing has ended.
LEMMA MarksInit == Init => EndMarks /\ EofMeansAll
  BY DEF Init, EndMarks, EofMeansAll

\* The one item left is an EOF mark, and nobody closed: all was read.
LEMMA MarkMeansAll ==
    ASSUME RelayType, BytesIn, EndMarks, alive, closeTx = "held", readBuf = <<>>, toOs # <<>>,
           Head(toOs).ok, ~LoopGoesOn(Head(toOs))
    PROVE  finSeen /\ osRead = Bytes(0, peerSent)
<1>1. /\ Len(toOs) \in Nat \ {0} /\ Head(toOs) = toOs[1] /\ Data(toOs)[1] = Head(toOs).bytes
  BY DataFirst DEF RelayType
<1>2. Head(toOs).bytes = <<>>
  BY DEF LoopGoesOn
<1>3. Len(toOs) = 1 /\ relay = "done" /\ finSeen /\ rxBuf = <<>>
  <2>1. 1 \in 1 .. Len(toOs) /\ ~LoopGoesOn(toOs[1]) /\ toOs[1].ok /\ toOs[1].bytes = <<>>
    BY <1>1, <1>2
  <2>2. 1 = Len(toOs) /\ relay = "done"
    BY <2>1 DEF EndMarks
  <2>3. finSeen /\ rxBuf = <<>>
    BY <2>1 DEF EndMarks
  <2> QED BY <2>2, <2>3
<1>4. PICK l \in Nat : Run(osRead, 0, l) /\ ToReader(l)
  BY DEF BytesIn
<1>5. PICK a \in Nat, b \in Nat :
         Run(readBuf, l, a) /\ Chunks(Data(toOs), 1, a, b) /\ OnItsWay(b)
  BY <1>3, <1>4 DEF ToReader, Coming, Gone
<1>6. l = a
  BY <1>5, RunOf
<1>7. a = b
  <2> DEFINE f == Data(toOs)
             g == [i \in 1 .. 0 |-> f[i + 1]]
             n == Len(toOs)
  <2>1. /\ n \in Nat \ {0} /\ n = 1 /\ Chunks(f, n, a, b) /\ f[1] = <<>>
        /\ \A i \in 1 .. n - 1 : g[i] = f[i + 1]
    BY <1>1, <1>2, <1>3, <1>5
  <2> HIDE DEF f, g, n
  <2>2. PICK m \in Nat : m <= b /\ Run(f[1], a, m) /\ Chunks(g, n - 1, m, b)
    BY <2>1, ChunksFirst
  <2>3. n - 1 = 0
    BY <2>1
  <2>4. a = m
    BY <2>1, <2>2, RunOf
  <2>5. Chunks(g, 0, m, b)
    BY <2>2, <2>3
  <2>6. m = b
    BY <2>5, ChunksNone
  <2> QED BY <2>4, <2>6
<1>8. b = peerSent
  <2>1. Run(rxBuf, b, peerSent) /\ peerSent \in Nat
    BY <1>3, <1>5 DEF OnItsWay, RelayType
  <2> QED BY <1>3, <2>1, RunOf
<1>9. osRead = Bytes(0, l)
  BY <1>4, RunOf
<1> QED BY <1>3, <1>6, <1>7, <1>8, <1>9

\* Once all is read, nothing more comes.
LEMMA AllStaysAll ==
    ASSUME RelayType, BytesIn, [Next]_vars, finSeen, osRead = Bytes(0, peerSent)
    PROVE  finSeen' /\ osRead' = Bytes(0, peerSent)' /\ peerSent' = peerSent
<1>1. finSeen' /\ peerSent' = peerSent
  BY DEF Next, Relay, OsThread, Read, Peer, RecvArm, SendToOs, DataArm, SendToTcp, CloseArm, CloseDone,
         LcoreStops, PollWrite, PollRead, PollClose, DropStream, PeerSend, PeerReceive, PeerFin,
         PeerAcksFin, PeerReset, vars, os, socket, peer
<1>2. peerSent \in Nat /\ Len(osRead) = peerSent
  <2>1. peerSent \in Nat
    BY DEF RelayType
  <2> QED BY <2>1, BytesRun DEF Run
<1>3. osRead' = osRead
  <2>1. [Ingress!Write \/ Ingress!Read]_Ingress!vars
    BY InStep
  <2>2. ~ \E n \in (Len(osRead) + 1) .. peerSent : TRUE
    BY <1>2
  <2> QED BY <2>1, <2>2 DEF Ingress!Write, Ingress!Read, Ingress!vars
<1> QED BY <1>1, <1>3 DEF Bytes

\* Every step keeps the marks in their place.
LEMMA MarksStep ==
    ASSUME RelayType, BytesIn, EndMarks, EofMeansAll, [Next]_vars
    PROVE  EndMarks' /\ EofMeansAll'
<1> USE DEF LoopGoesOn
<1>1. ASSUME osSaw' = "eof" => osSaw = "eof", closeTx' = "held" => closeTx = "held",
             relay' # "stopped" => relay # "stopped"
      PROVE  EofMeansAll'
  BY <1>1, AllStaysAll DEF EofMeansAll
\* A step that touches neither the channel nor what the marks speak of.
<1>2. ASSUME UNCHANGED <<toOs, alive, osSaw>>, closeTx' = "held" => closeTx = "held",
             relay = "done" <=> relay' = "done", relay' # "stopped" => relay # "stopped",
             finSeen => finSeen' /\ (rxBuf = <<>> => rxBuf' = <<>>),
             relay' = "toOs" /\ held'.ok /\ held'.bytes = <<>> => finSeen' /\ rxBuf' = <<>>
      PROVE  EndMarks' /\ EofMeansAll'
  <2>1. EndMarks'
    BY <1>2 DEF EndMarks
  <2> QED BY <1>1, <1>2, <2>1
<1>3. toOs \in Seq(Items) /\ held \in Items
  BY DEF RelayType
<1>4. CASE RecvArm
  <2>1. /\ relay = "select" /\ relay' = "toOs" /\ rxBuf' = <<>> /\ held' = Received
        /\ UNCHANGED <<toOs, alive, osSaw, closeTx, finSeen>>
    BY <1>4 DEF RecvArm, Hold, os
  <2>2. held'.ok /\ held'.bytes = <<>> => finSeen
    BY <2>1 DEF Received, Chunk, Eof, Error
  <2> QED BY <1>2, <2>1, <2>2
<1>5. CASE SendToOs
  <2>1. /\ relay = "toOs" /\ UNCHANGED <<alive, osSaw, closeTx, finSeen, rxBuf>>
        /\ (alive => toOs' = Append(toOs, held)) /\ (~alive => toOs' = toOs)
        /\ (alive /\ LoopGoesOn(held) => relay' = "select") /\ (~(alive /\ LoopGoesOn(held)) => relay' = "done")
    BY <1>5 DEF SendToOs, Hold, Exit, os
  <2>2. EofMeansAll'
    BY <1>1, <2>1
  <2>3. CASE ~alive
    BY <2>1, <2>2, <2>3 DEF EndMarks
  <2>4. CASE alive
    <3>1. /\ Len(toOs') = Len(toOs) + 1 /\ Len(toOs) \in Nat /\ toOs'[Len(toOs')] = held /\ toOs' # <<>>
          /\ \A i \in 1 .. Len(toOs') :
               (i \in 1 .. Len(toOs) /\ toOs'[i] = toOs[i]) \/ (i = Len(toOs') /\ toOs'[i] = held)
      BY <1>3, <2>1, <2>4
    <3>2. \A i \in 1 .. Len(toOs') : ~LoopGoesOn(toOs'[i]) => i = Len(toOs') /\ relay' = "done"
      BY <2>1, <2>4, <3>1 DEF EndMarks
    <3>3. \A i \in 1 .. Len(toOs') : toOs'[i].ok /\ toOs'[i].bytes = <<>> => finSeen' /\ rxBuf' = <<>>
      BY <2>1, <2>4, <3>1 DEF EndMarks
    <3>4. relay' = "done" => ~LoopGoesOn(toOs'[Len(toOs')])
      BY <2>1, <2>4, <3>1
    <3>5. relay' # "toOs"
      BY <2>1
    <3> QED BY <2>2, <3>1, <3>2, <3>3, <3>4, <3>5 DEF EndMarks
  <2> QED BY <2>3, <2>4
<1>6. CASE DataArm
  <2>1. relay = "select" /\ UNCHANGED <<toOs, alive, osSaw, closeTx, finSeen, rxBuf>>
    BY <1>6 DEF DataArm, os
  <2>2. relay' = "toTcp" \/ (relay' = "done" /\ ~alive)
    BY <1>6 DEF DataArm, Hold, Exit
  <2>3. EofMeansAll'
    BY <1>1, <2>1
  <2> QED BY <2>1, <2>2, <2>3 DEF EndMarks
<1>7. CASE SendToTcp
  <2>1. relay = "toTcp" /\ UNCHANGED <<toOs, alive, osSaw, closeTx, finSeen, rxBuf>>
    BY <1>7 DEF SendToTcp, os
  <2>2. relay' \in {"select", "toTcp"} \/ (relay' = "toOs" /\ ~held'.ok)
    BY <1>7 DEF SendToTcp, Hold, Error
  <2> QED BY <1>2, <2>1, <2>2
<1>8. CASE CloseArm
  BY <1>2, <1>8 DEF CloseArm, Hold, os
<1>9. CASE CloseDone
  <2>1. /\ relay = "closing" /\ relay' = "done" /\ UNCHANGED <<toOs, alive, osSaw, closeTx, finSeen, rxBuf>>
    BY <1>9 DEF CloseDone, Exit, os
  <2>2. closeTx = "sent" \/ ~alive
    BY <2>1 DEF RelayType
  <2>3. EofMeansAll'
    BY <1>1, <2>1
  <2> QED BY <2>1, <2>2, <2>3 DEF EndMarks
<1>10. CASE LcoreStops
  <2>1. /\ relay # "done" /\ relay' = "stopped" /\ UNCHANGED <<toOs, alive, osSaw, closeTx, finSeen, rxBuf>>
    BY <1>10 DEF LcoreStops, Exit, Gone, os
  <2> QED BY <2>1 DEF EndMarks, EofMeansAll
<1>11. CASE PollWrite \/ PollClose \/ PeerSend \/ PeerReceive \/ PeerFin \/ PeerAcksFin \/ PeerReset \/ UNCHANGED vars
  <2>1. /\ UNCHANGED <<toOs, alive, osSaw, relay, held>> /\ (closeTx' = "held" => closeTx = "held")
        /\ (finSeen => finSeen' /\ rxBuf' = rxBuf)
    BY <1>11 DEF PollWrite, PollClose, PeerSend, PeerReceive, PeerFin, PeerAcksFin, PeerReset, vars, os, socket, peer
  <2> QED BY <1>2, <2>1 DEF EndMarks
<1>12. CASE DropStream
  <2>1. /\ alive' = FALSE /\ toOs' = <<>> /\ UNCHANGED <<osSaw, closeTx, relay, held, finSeen, rxBuf>>
    BY <1>12 DEF DropStream, socket
  <2>2. EofMeansAll'
    BY <1>1, <2>1
  <2> QED BY <2>1, <2>2 DEF EndMarks
<1>13. ASSUME NEW n \in 0 .. ReadSize, PollRead(n) PROVE EndMarks' /\ EofMeansAll'
  <2>1. alive /\ UNCHANGED <<closeTx, alive, relay, held, finSeen, rxBuf, peerSent>>
    BY <1>13 DEF PollRead, socket, peer
  <2>2. CASE UNCHANGED <<toOs, osSaw>>
    BY <1>2, <2>1, <2>2 DEF EndMarks
  <2>3. CASE readBuf = <<>> /\ toOs # <<>> /\ toOs' = Tail(toOs)
    <3>1. /\ Len(toOs) \in Nat \ {0} /\ Head(toOs) = toOs[1] /\ Len(toOs') = Len(toOs) - 1
          /\ \A i \in 1 .. Len(toOs') : i + 1 \in 1 .. Len(toOs) /\ toOs'[i] = toOs[i + 1]
      BY <1>3, <2>3
    <3>2. \A i \in 1 .. Len(toOs') : ~LoopGoesOn(toOs'[i]) => i = Len(toOs') /\ relay' = "done"
      BY <2>1, <3>1 DEF EndMarks
    <3>3. \A i \in 1 .. Len(toOs') : toOs'[i].ok /\ toOs'[i].bytes = <<>> => finSeen' /\ rxBuf' = <<>>
      BY <2>1, <3>1 DEF EndMarks
    <3>4. CASE LoopGoesOn(Head(toOs)) /\ UNCHANGED osSaw
      <4>1. EofMeansAll'
        BY <1>1, <2>1, <3>4
      <4>2. ASSUME relay = "done", closeTx = "held", osSaw = "open"
            PROVE  toOs' # <<>> /\ ~LoopGoesOn(toOs'[Len(toOs')])
        <5>1. ~LoopGoesOn(toOs[Len(toOs)])
          BY <2>1, <4>2 DEF EndMarks
        <5>2. Len(toOs) # 1
          BY <3>1, <3>4, <5>1
        <5>3. Len(toOs') \in 1 .. Len(toOs') /\ Len(toOs') + 1 = Len(toOs)
          BY <3>1, <5>2
        <5>4. toOs' # <<>>
          BY <5>3
        <5> QED BY <3>1, <5>1, <5>3, <5>4
      <4> QED BY <2>1, <3>2, <3>3, <3>4, <4>1, <4>2 DEF EndMarks
    <3>5. CASE ~LoopGoesOn(Head(toOs)) /\ Ended(IF Head(toOs).ok THEN "eof" ELSE "error") /\ UNCHANGED osRead
      <4>1. osSaw' # "open"
        BY <3>5 DEF Ended
      <4>2. EofMeansAll'
        <5>1. CASE osSaw' = "eof" => osSaw = "eof"
          BY <1>1, <2>1, <5>1
        <5>2. CASE osSaw' = "eof" /\ osSaw # "eof"
          <6>1. Head(toOs).ok
            BY <3>5, <5>2 DEF Ended
          <6>2. closeTx = "held" => finSeen /\ osRead = Bytes(0, peerSent)
            BY <2>1, <2>3, <3>5, <6>1, MarkMeansAll
          <6> QED BY <2>1, <3>5, <6>2 DEF EofMeansAll, Bytes
        <5> QED BY <5>1, <5>2
      <4> QED BY <2>1, <3>2, <3>3, <4>1, <4>2 DEF EndMarks
    <3> QED BY <1>13, <2>3, <3>4, <3>5 DEF PollRead
  <2>4. CASE toOs = <<>> /\ Gone /\ Ended("eof") /\ UNCHANGED <<osRead, toOs>>
    <3>1. osSaw' # "open"
      BY <2>4 DEF Ended
    <3>2. EofMeansAll'
      <4>1. CASE osSaw' = "eof" => osSaw = "eof"
        BY <1>1, <2>1, <4>1
      <4>2. CASE osSaw' = "eof" /\ osSaw # "eof"
        <5>1. osSaw = "open"
          BY <2>4, <4>2 DEF Ended
        <5>2. relay = "stopped" \/ closeTx # "held"
          BY <2>1, <2>4, <5>1 DEF EndMarks, Gone
        <5> QED BY <2>1, <5>2 DEF EofMeansAll
      <4> QED BY <4>1, <4>2
    <3> QED BY <2>1, <2>4, <3>1, <3>2 DEF EndMarks
  <2> QED BY <1>13, <2>2, <2>3, <2>4 DEF PollRead
<1> QED BY <1>4, <1>5, <1>6, <1>7, <1>8, <1>9, <1>10, <1>11, <1>12, <1>13
        DEF Next, Relay, OsThread, Read, Peer

-----------------------------------------------------------------------------
(* BridgeRelay: what was written goes on towards the peer.                 *)

\* Somebody ended the connection: the OS thread, the peer or the lcore.
Disturbed == ~alive \/ closeTx = "sent" \/ finSeen \/ sock = "Closed" \/ relay = "stopped"

\* Neither the socket nor the task leaves its normal course by itself, and an
\* error or an EOF mark is made only on a connection somebody ended.
EndsForAReason ==
    /\ sock # "Established" => Disturbed
    /\ relay = "toOs" /\ held.bytes = <<>> => Disturbed
    /\ relay \in {"closing", "done", "stopped"} => Disturbed

\* On a connection nobody ended, the bytes poll_write accepted are, in order,
\* with the peer, in the send buffer, in the task's hands and in the channel;
\* and while the peer has not got all of them one of these moves: the send
\* buffer to the peer, the task's chunk to the send buffer, the channel to the
\* task, or the task is handing data to the OS thread.
WrittenMovesOn ==
    ~Disturbed =>
        /\ \E l, b \in Nat : Run(peerGot, 0, l) /\ Run(txBuf, l, b) /\ FromWriter(b)
        /\ Len(peerGot) < wrote =>
              \/ txBuf # <<>>
              \/ relay = "toTcp" /\ (held.bytes = <<>> \/ (MaySend /\ SendSlice(held.bytes) > 0))
              \/ relay = "select" /\ toLcore # <<>>
              \/ relay = "toOs" /\ LoopGoesOn(held)

\* A connection somebody ended stays so.
LEMMA DisturbedStays ==
    ASSUME RelayType, [Next]_vars, Disturbed
    PROVE  Disturbed'
<1>1. CASE relay = "stopped"
  <2>1. relay' = "stopped"
    BY <1>1 DEF Next, Relay, OsThread, Read, Peer, RecvArm, SendToOs, DataArm, SendToTcp, CloseArm,
           CloseDone, LcoreStops, PollWrite, PollRead, PollClose, DropStream, PeerSend, PeerReceive,
           PeerFin, PeerAcksFin, PeerReset, Gone, vars
  <2> QED BY <2>1 DEF Disturbed
<1>2. (~alive => ~alive') /\ (closeTx = "sent" => closeTx' = "sent") /\ (finSeen => finSeen')
  BY DEF Next, Relay, OsThread, Read, Peer, RecvArm, SendToOs, DataArm, SendToTcp, CloseArm, CloseDone,
         LcoreStops, PollWrite, PollRead, PollClose, DropStream, PeerSend, PeerReceive, PeerFin,
         PeerAcksFin, PeerReset, vars, os, socket
<1>3. sock = "Closed" => sock' = "Closed"
  BY DEF Next, Relay, OsThread, Read, Peer, RecvArm, SendToOs, DataArm, SendToTcp, CloseArm, CloseDone,
         LcoreStops, PollWrite, PollRead, PollClose, DropStream, PeerSend, PeerReceive, PeerFin,
         PeerAcksFin, PeerReset, Exit, Shutdown, vars, socket
<1> QED BY <1>1, <1>2, <1>3 DEF Disturbed

\* Every step that ends something has a reason.
LEMMA ReasonStep ==
    ASSUME RelayType, EndsForAReason, [Next]_vars
    PROVE  EndsForAReason'
<1>1. CASE Disturbed
  BY <1>1, DisturbedStays DEF EndsForAReason
<1> SUFFICES ASSUME ~Disturbed PROVE EndsForAReason'
  BY <1>1
<1>2. /\ alive /\ closeTx # "sent" /\ ~finSeen /\ sock = "Established"
      /\ relay \in {"select", "toOs", "toTcp"} /\ (relay = "toOs" => held.bytes # <<>>)
      /\ (~held.ok => held.bytes = <<>>)
  BY DEF Disturbed, EndsForAReason, RelayType
<1>3. ASSUME sock' = sock, relay' \in {"select", "toOs", "toTcp"},
             relay' = "toOs" => held'.bytes # <<>>
      PROVE  EndsForAReason'
  BY <1>2, <1>3 DEF EndsForAReason
<1>4. CASE RecvArm
  <2>1. rxBuf # <<>> /\ held' = Chunk(rxBuf) /\ relay' = "toOs" /\ sock' = sock
    BY <1>2, <1>4 DEF RecvArm, MayReceive, Received, Hold
  <2> QED BY <1>3, <2>1 DEF Chunk
<1>5. CASE SendToOs
  <2>1. relay = "toOs" /\ LoopGoesOn(held)
    BY <1>2, <1>5 DEF SendToOs, LoopGoesOn
  <2> QED BY <1>2, <1>3, <1>5, <2>1 DEF SendToOs, Hold
<1>6. CASE DataArm
  BY <1>2, <1>3, <1>6 DEF DataArm, Hold
<1>7. CASE SendToTcp
  BY <1>2, <1>3, <1>7 DEF SendToTcp, Hold, MaySend
<1>8. CASE CloseArm \/ CloseDone
  BY <1>2, <1>8 DEF CloseArm, CloseDone
<1>9. CASE LcoreStops
  <2>1. relay' = "stopped"
    BY <1>9 DEF LcoreStops, Exit
  <2> QED BY <2>1 DEF EndsForAReason, Disturbed
<1>10. CASE OsThread \/ PeerSend \/ PeerReceive \/ UNCHANGED vars
  BY <1>2, <1>3, <1>10 DEF OsThread, PollWrite, Read, PollRead, PollClose, DropStream, PeerSend,
     PeerReceive, vars, socket
<1>11. CASE PeerFin
  <2>1. finSeen'
    BY <1>11 DEF PeerFin
  <2> QED BY <2>1 DEF EndsForAReason, Disturbed
<1>12. CASE PeerAcksFin
  BY <1>2, <1>12 DEF PeerAcksFin
<1>13. CASE PeerReset
  <2>1. sock' = "Closed"
    BY <1>13 DEF PeerReset
  <2> QED BY <2>1 DEF EndsForAReason, Disturbed
<1> QED BY <1>4, <1>5, <1>6, <1>7, <1>8, <1>9, <1>10, <1>11, <1>12, <1>13 DEF Next, Relay, Peer

\* What is on its way can move.
LEMMA MovesOn ==
    ASSUME RelayType, BytesOut, EndsForAReason
    PROVE  WrittenMovesOn
<1> SUFFICES ASSUME ~Disturbed PROVE WrittenMovesOn
  BY DEF WrittenMovesOn
<1>1. /\ sock = "Established" /\ relay \in {"select", "toOs", "toTcp"}
      /\ (relay = "toOs" => held.bytes # <<>>) /\ (~held.ok => held.bytes = <<>>)
  BY DEF Disturbed, EndsForAReason, RelayType
<1>2. Flowing /\ (relay = "toOs" => LoopGoesOn(held))
  BY <1>1 DEF Flowing, Gone, LoopGoesOn, RelayType, Items
<1>3. PICK l \in Nat : Run(peerGot, 0, l) /\ ToPeer(l)
  BY <1>1 DEF BytesOut
<1>4. PICK b \in Nat : Run(txBuf, l, b) /\ FromWriter(b)
  BY <1>2, <1>3 DEF ToPeer
<1>5. ASSUME txBuf = <<>>, Len(peerGot) < wrote, relay = "select" PROVE toLcore # <<>>
  <2>1. l = b /\ Len(peerGot) = l
    BY <1>3, <1>4, <1>5, RunOf DEF Run
  <2>2. Chunks(toLcore, Len(toLcore), l, wrote)
    BY <1>4, <1>5, <2>1 DEF FromWriter
  <2>3. ASSUME toLcore = <<>> PROVE FALSE
    <3>1. Chunks(toLcore, 0, l, wrote) /\ wrote \in Nat
      BY <2>2, <2>3 DEF RelayType
    <3>2. l = wrote
      BY <3>1, ChunksNone
    <3> QED BY <1>5, <2>1, <3>2
  <2> QED BY <2>3
<1>6. ASSUME txBuf = <<>>, held.bytes # <<>> PROVE MaySend /\ SendSlice(held.bytes) > 0
  <2>1. held.bytes \in Seq(Nat) /\ SocketBuffer \in Nat \ {0}
    BY SizeAssumption DEF RelayType, Items
  <2>2. Len(held.bytes) \in Nat \ {0} /\ Len(txBuf) = 0
    BY <1>6, <2>1
  <2> QED BY <1>1, <2>1, <2>2 DEF MaySend, SendSlice, Least
<1> QED BY <1>1, <1>2, <1>3, <1>4, <1>5, <1>6 DEF WrittenMovesOn

-----------------------------------------------------------------------------
\* Both directions of a bridged connection are byte pipes: the reader of either
\* end gets what the other end wrote, in order and each byte once, whatever the
\* sizes of the channels, of the socket's buffers and of the reads and writes,
\* and wherever the task, the stream or the peer ends (relay_task, poll_read and
\* poll_write).
THEOREM BytesInOrder == Spec => BothWaysArePipes
<1>1. Init => Ingress!Init /\ Egress!Init
  BY DEF Init, Ingress!Init, Egress!Init
<1>2. Spec => [](RelayType /\ BytesIn /\ BytesOut)
  <2>1. RelayType /\ BytesIn /\ BytesOut /\ [Next]_vars => (RelayType /\ BytesIn /\ BytesOut)'
    BY TypeStep, InStep, OutStep
  <2>2. Init => RelayType /\ BytesIn /\ BytesOut
    BY TypeInit, InInit, OutInit
  <2> QED BY <2>1, <2>2, PTL DEF Spec
<1>3. RelayType /\ BytesIn /\ [Next]_vars => [Ingress!Write \/ Ingress!Read]_Ingress!vars
  BY InStep
<1>4. RelayType /\ BytesOut /\ [Next]_vars => [Egress!Write \/ Egress!Read]_Egress!vars
  BY OutStep
<1> QED BY <1>1, <1>2, <1>3, <1>4, PTL DEF Spec, BothWaysArePipes, Ingress!Spec, Egress!Spec

\* A reader that neither closed nor lost its lcore, and meets the end of the
\* stream before any error, has read all the peer sent, and the peer did close:
\* the closed channel poll_read takes for EOF is never an ended task whose mark
\* or error is still to be read.
THEOREM EofIsTheEnd == Spec => []EofMeansAll
<1> DEFINE EofInv == RelayType /\ BytesIn /\ EndMarks /\ EofMeansAll
<1>1. Init => EofInv
  BY TypeInit, InInit, MarksInit
<1>2. EofInv /\ [Next]_vars => EofInv'
  BY TypeStep, InStep, MarksStep
<1> QED BY <1>1, <1>2, PTL DEF Spec

\* On a connection neither end, nor the lcore, has ended, no byte poll_write
\* accepted is lost or stuck: each is with the peer or between the two ends in
\* its place, and as long as one is missing the send buffer, the task or the
\* channel can move, or the task waits for the OS thread to read (relay_task's
\* sends inside the arms of its select!).
THEOREM NothingWrittenIsStuck == Spec => []WrittenMovesOn
<1> DEFINE OutInv == RelayType /\ BytesOut /\ EndsForAReason
<1>1. Init => OutInv
  <2>1. Init => EndsForAReason
    BY DEF Init, EndsForAReason
  <2> QED BY <2>1, TypeInit, OutInit
<1>2. OutInv /\ [Next]_vars => OutInv'
  BY TypeStep, OutStep, ReasonStep
<1>3. OutInv => WrittenMovesOn
  BY MovesOn
<1> QED BY <1>1, <1>2, <1>3, PTL DEF Spec
=============================================================================
