-------------------------- MODULE DpdkBridgeProofs --------------------------
(***************************************************************************)
(* Safety of the bridge between OS threads and lcores, for any number of   *)
(* workers and calls and any channel sizes.                                *)
(***************************************************************************)
EXTENDS DpdkBridge, SequenceLemmas

-----------------------------------------------------------------------------
(* Types and commands.                                                     *)

\* A call takes a ticket for a list that is not empty; a worker serves a call
\* only while it awaits its handshake.
Serving ==
    /\ \A c \in Calls : pc[c] = "loaded" => snapshot[c] # <<>>
    /\ \A w \in Workers : worker[w] # "connecting" => serving[w] = NoCall

Inv == TypeOK /\ Serving /\ NoLostCommand

\* At the start no call and no worker is busy.
LEMMA InitInv == Init => Inv
<1> SUFFICES ASSUME Init PROVE Inv
  OBVIOUS
<1>1. (CHOOSE w \in Workers : TRUE) \in Workers
  BY BridgeAssumption
<1>2. /\ 0 \in 0 .. Ports - 1 /\ CmdSize \in Nat
      /\ Asks \subseteq [Calls -> {"connect", "listen", "bind_udp"}]
  BY BridgeAssumption
<1>3. /\ <<>> \in Seq(Workers) /\ <<>> \in Seq(Calls) /\ Len(<<>>) = 0
      /\ <<>> \in Seq([list : Seq(Workers), worker : Workers])
  OBVIOUS
<1>4. TypeOK
  BY <1>1, <1>2, <1>3 DEF Init, TypeOK
<1> QED BY <1>4 DEF Init, Inv, Serving, NoLostCommand

\* What an idle worker finds in its channel.
LEMMA FirstCommand ==
    ASSUME TypeOK, NEW w \in Workers, cmds[w] # <<>>
    PROVE  /\ Head(cmds[w]) \in Calls /\ Tail(cmds[w]) \in Seq(Calls)
           /\ Len(Tail(cmds[w])) <= CmdSize
           /\ ToSet(cmds[w]) = {Head(cmds[w])} \cup ToSet(Tail(cmds[w]))
<1>1. cmds[w] \in Seq(Calls) /\ Len(cmds[w]) <= CmdSize /\ CmdSize \in Nat
  BY BridgeAssumption DEF TypeOK
<1>2. /\ Head(cmds[w]) \in Calls /\ Tail(cmds[w]) \in Seq(Calls)
      /\ Len(Tail(cmds[w])) = Len(cmds[w]) - 1
      /\ ToSet(cmds[w]) = {Head(cmds[w])} \cup ToSet(Tail(cmds[w]))
  BY <1>1, Headed
<1> QED BY <1>1, <1>2

\* A worker takes the first command and answers it, or starts to serve it: a
\* call that waits for its answer does not lose its command.
LEMMA ServeStep ==
    ASSUME Inv, NEW w \in Workers, worker[w] = "idle", cmds[w] # <<>>,
           cmds' = [cmds EXCEPT ![w] = Tail(@)],
           nextPort' \in [Workers -> 0..Ports-1],
           \/ /\ \E r \in {"ok", "error"} : Answer(Head(cmds[w]), r)
              /\ UNCHANGED <<worker, serving>>
           \/ /\ worker' = [worker EXCEPT ![w] = "connecting"]
              /\ serving' = [serving EXCEPT ![w] = Head(cmds[w])]
              /\ UNCHANGED reply,
           UNCHANGED <<registry, calls, next, picked>>
    PROVE  Inv'
<1>1. /\ Head(cmds[w]) \in Calls /\ Tail(cmds[w]) \in Seq(Calls)
      /\ Len(Tail(cmds[w])) <= CmdSize
      /\ ToSet(cmds[w]) = {Head(cmds[w])} \cup ToSet(Tail(cmds[w]))
  BY FirstCommand DEF Inv
<1>2. /\ cmds' \in [Workers -> Seq(Calls)] /\ cmds'[w] = Tail(cmds[w])
      /\ \A v \in Workers : v # w => cmds'[v] = cmds[v]
  BY <1>1 DEF Inv, TypeOK
<1>3. \A v \in Workers : Len(cmds'[v]) <= CmdSize
  BY <1>1, <1>2 DEF Inv, TypeOK
<1>4. /\ worker' \in [Workers -> {"off", "registered", "idle", "connecting", "stopped"}]
      /\ serving' \in [Workers -> Calls \cup {NoCall}]
      /\ reply' \in [Calls -> {"empty", "ok", "error", "dropped"}]
      /\ \A c \in Calls : reply[c] # "empty" => reply'[c] # "empty"
      /\ reply'[Head(cmds[w])] # "empty" \/ serving'[w] = Head(cmds[w])
      /\ \A v \in Workers : v # w => serving'[v] = serving[v]
      /\ \A v \in Workers : worker'[v] # "connecting" => serving'[v] = NoCall
  <2>1. /\ worker \in [Workers -> {"off", "registered", "idle", "connecting", "stopped"}]
        /\ serving \in [Workers -> Calls \cup {NoCall}]
        /\ reply \in [Calls -> {"empty", "ok", "error", "dropped"}]
        /\ \A v \in Workers : worker[v] # "connecting" => serving[v] = NoCall
    BY DEF Inv, TypeOK, Serving
  <2>2. CASE /\ \E r \in {"ok", "error"} : Answer(Head(cmds[w]), r)
             /\ UNCHANGED <<worker, serving>>
    BY <1>1, <2>1, <2>2 DEF Answer
  <2>3. CASE /\ worker' = [worker EXCEPT ![w] = "connecting"]
             /\ serving' = [serving EXCEPT ![w] = Head(cmds[w])]
             /\ UNCHANGED reply
    BY <1>1, <2>1, <2>3
  <2> QED BY <2>2, <2>3
<1>5. TypeOK' /\ Serving'
  BY <1>2, <1>3, <1>4 DEF Inv, TypeOK, Serving, calls
<1>6. NoLostCommand'
  <2> SUFFICES ASSUME NEW c \in Calls, pc[c] = "waiting", reply'[c] = "empty"
               PROVE  c \in ToSet(cmds'[target[c]]) \/ serving'[target[c]] = c
    BY DEF NoLostCommand, calls, ToSet
  <2>1. target[c] \in Workers /\ serving[w] = NoCall /\ c # NoCall
    BY BridgeAssumption DEF Inv, TypeOK, Serving
  <2>2. c \in ToSet(cmds[target[c]]) \/ serving[target[c]] = c
    BY <1>4 DEF Inv, NoLostCommand
  <2>3. CASE target[c] = w
    BY <1>1, <1>2, <1>4, <2>1, <2>2, <2>3
  <2>4. CASE target[c] # w
    BY <1>2, <1>4, <2>1, <2>2, <2>4
  <2> QED BY <2>3, <2>4
<1> QED BY <1>5, <1>6 DEF Inv

\* EphemeralPorts::allocate wraps within the range of ports.
LEMMA AllocateType ==
    ASSUME TypeOK, NEW w \in Workers, Allocate(w)
    PROVE  nextPort' \in [Workers -> 0..Ports-1]
<1>1. Ports \in Nat \ {0} /\ nextPort \in [Workers -> 0..Ports-1]
  BY BridgeAssumption DEF TypeOK
<1>2. (nextPort[w] + 1) % Ports \in 0..Ports-1
  BY <1>1
<1> QED BY <1>1, <1>2 DEF Allocate

\* The steps of a worker's lcore keep the invariant.
LEMMA LcoreStep == ASSUME Inv, NEW w \in Workers, Lcore(w) PROVE Inv'
<1>1. CASE Register(w)
  <2>1. /\ worker' = [worker EXCEPT ![w] = "registered"] /\ worker[w] = "off"
        /\ registry' = Append(registry, w)
        /\ UNCHANGED <<serving, cmds, nextPort, pc, kind, snapshot, target, next, reply, picked>>
    BY <1>1 DEF Register, calls
  <2>2. registry' \in Seq(Workers)
    BY <2>1 DEF Inv, TypeOK
  <2>3. worker' \in [Workers -> {"off", "registered", "idle", "connecting", "stopped"}]
    BY <2>1 DEF Inv, TypeOK
  <2>4. TypeOK'
    BY <2>1, <2>2, <2>3 DEF Inv, TypeOK
  <2> QED BY <2>1, <2>4 DEF Inv, TypeOK, Serving, NoLostCommand
<1>2. CASE NotifyWaiters(w)
  <2>1. /\ worker' = [worker EXCEPT ![w] = "idle"] /\ worker[w] = "registered"
        /\ pc' = [c \in Calls |-> IF pc[c] = "notified" THEN "check" ELSE pc[c]]
        /\ UNCHANGED <<registry, serving, cmds, nextPort, kind, snapshot, target, next,
                       reply, picked>>
    BY <1>2 DEF NotifyWaiters
  <2>2. TypeOK'
    BY <2>1 DEF Inv, TypeOK
  <2> QED BY <2>1, <2>2 DEF Inv, TypeOK, Serving, NoLostCommand
<1>3. CASE ServeConnect(w)
  <2>1. nextPort' \in [Workers -> 0..Ports-1]
    BY <1>3, AllocateType DEF ServeConnect, Inv
  <2> QED BY <1>3, <2>1, ServeStep DEF ServeConnect
<1>4. CASE HandshakeEnds(w)
  <2>1. PICK r \in {"ok", "error"} : Answer(serving[w], r)
    BY <1>4 DEF HandshakeEnds
  <2>2. /\ worker' = [worker EXCEPT ![w] = "idle"]
        /\ serving' = [serving EXCEPT ![w] = NoCall]
        /\ reply' = [reply EXCEPT ![serving[w]] = r]
        /\ UNCHANGED <<registry, cmds, nextPort, pc, kind, snapshot, target, next, picked>>
    BY <1>4, <2>1 DEF HandshakeEnds, Answer, calls
  <2>3. TypeOK'
    BY <2>2 DEF Inv, TypeOK
  <2>4. Serving'
    BY <2>2 DEF Inv, TypeOK, Serving
  <2>5. \A c \in Calls : reply'[c] = IF c = serving[w] THEN r ELSE reply[c]
    BY <2>2 DEF Inv, TypeOK
  <2>6. NoLostCommand'
    BY <2>2, <2>5 DEF Inv, TypeOK, NoLostCommand
  <2> QED BY <2>3, <2>4, <2>6 DEF Inv
<1>5. CASE ServeListen(w)
  <2>1. nextPort' \in [Workers -> 0..Ports-1]
    BY <1>5 DEF ServeListen, Inv, TypeOK
  <2>2. /\ \E r \in {"ok", "error"} : Answer(Head(cmds[w]), r)
        /\ worker[w] = "idle" /\ cmds[w] # <<>> /\ cmds' = [cmds EXCEPT ![w] = Tail(@)]
        /\ UNCHANGED <<worker, serving, registry, calls, next, picked>>
    BY <1>5 DEF ServeListen
  <2> QED BY <2>1, <2>2, ServeStep
<1>6. CASE ServeBindUdp(w)
  <2>1. nextPort' \in [Workers -> 0..Ports-1]
    BY <1>6 DEF ServeBindUdp, Inv, TypeOK
  <2>2. /\ \E r \in {"ok", "error"} : Answer(Head(cmds[w]), r)
        /\ worker[w] = "idle" /\ cmds[w] # <<>> /\ cmds' = [cmds EXCEPT ![w] = Tail(@)]
        /\ UNCHANGED <<worker, serving, registry, calls, next, picked>>
    BY <1>6 DEF ServeBindUdp
  <2> QED BY <2>1, <2>2, ServeStep
<1>7. CASE WorkerStops(w)
  <2>1. /\ worker' = [worker EXCEPT ![w] = "stopped"]
        /\ serving' = [serving EXCEPT ![w] = NoCall]
        /\ cmds' = [cmds EXCEPT ![w] = <<>>]
        /\ reply' = [c \in Calls |->
                        IF c \in ToSet(cmds[w]) \cup {serving[w]} THEN "dropped" ELSE reply[c]]
        /\ UNCHANGED <<registry, nextPort, pc, kind, snapshot, target, next, picked>>
    BY <1>7 DEF WorkerStops, calls
  <2>2. TypeOK'
    <3>1. <<>> \in Seq(Calls) /\ Len(<<>>) <= CmdSize
      BY BridgeAssumption
    <3> QED BY <2>1, <3>1 DEF Inv, TypeOK
  <2>3. Serving'
    BY <2>1 DEF Inv, TypeOK, Serving
  <2>4. NoLostCommand'
    BY <2>1 DEF Inv, TypeOK, NoLostCommand
  <2> QED BY <2>2, <2>3, <2>4 DEF Inv
<1> QED BY <1>1, <1>2, <1>3, <1>4, <1>5, <1>6, <1>7 DEF Lcore

\* The ticket selects a worker of the list.
LEMMA RoundRobinPlace ==
    ASSUME NEW list \in Seq(Workers), list # <<>>, NEW t \in Nat
    PROVE  (t % Len(list)) + 1 \in DOMAIN list /\ RoundRobin(list, t) \in Workers
<1>1. Len(list) \in Nat \ {0} /\ DOMAIN list = 1 .. Len(list)
  OBVIOUS
<1>2. t % Len(list) \in 0 .. Len(list) - 1
  BY <1>1
<1>3. (t % Len(list)) + 1 \in DOMAIN list
  BY <1>1, <1>2
<1> QED BY <1>3 DEF RoundRobin

\* A call moves on without touching a channel.
LEMMA GotoStep ==
    ASSUME Inv, NEW c \in Calls,
           NEW place \in Finished \cup {"start", "check", "empty", "notified",
                                        "select", "sending"},
           Goto(c, place),
           UNCHANGED <<workers, kind, snapshot, target, next, reply, picked>>
    PROVE  Inv'
<1>1. /\ UNCHANGED <<registry, worker, serving, cmds, nextPort, kind, snapshot, target,
                     next, reply, picked>>
      /\ pc' = [pc EXCEPT ![c] = place] /\ place # "waiting" /\ place # "loaded"
  BY DEF Goto, workers, Finished
<1>2. TypeOK'
  BY <1>1 DEF Inv, TypeOK
<1> QED BY <1>1, <1>2 DEF Inv, TypeOK, Serving, NoLostCommand

\* A call, its steps and its cancellation keep the invariant.
LEMMA CallStep == ASSUME Inv, NEW c \in Calls, Call(c) \/ Cancel(c) PROVE Inv'
<1>1. CASE Start(c)
  BY <1>1, GotoStep DEF Start
<1>2. CASE CheckReady(c)
  BY <1>2, GotoStep DEF CheckReady
<1>3. CASE StartWaiting(c)
  BY <1>3, GotoStep DEF StartWaiting
<1>4. CASE Load(c)
  <2>1. /\ snapshot' = [snapshot EXCEPT ![c] = registry]
        /\ pc' = [pc EXCEPT ![c] = IF registry = <<>> THEN "disconnected" ELSE "loaded"]
        /\ UNCHANGED <<registry, worker, serving, cmds, nextPort, kind, target, next,
                       reply, picked>>
    BY <1>4 DEF Load, Goto, workers
  <2>2. TypeOK'
    BY <2>1 DEF Inv, TypeOK, Finished
  <2>3. Serving'
    BY <2>1 DEF Inv, TypeOK, Serving
  <2>4. NoLostCommand'
    BY <2>1 DEF Inv, TypeOK, NoLostCommand
  <2> QED BY <2>2, <2>3, <2>4 DEF Inv
<1>5. CASE Pick(c)
  <2> DEFINE w == RoundRobin(snapshot[c], next)
  <2>1. /\ pc[c] = "loaded" /\ pc' = [pc EXCEPT ![c] = "sending"]
        /\ target' = [target EXCEPT ![c] = w] /\ next' = next + 1
        /\ picked' = Append(picked, [list |-> snapshot[c], worker |-> target'[c]])
        /\ UNCHANGED <<registry, worker, serving, cmds, nextPort, kind, snapshot, reply>>
    BY <1>5 DEF Pick, Goto, workers
  <2>2. snapshot[c] \in Seq(Workers) /\ snapshot[c] # <<>> /\ next \in Nat
    BY <2>1 DEF Inv, TypeOK, Serving
  <2>3. w \in Workers
    BY <2>2, RoundRobinPlace
  <2> HIDE DEF w
  <2>4. TypeOK'
    <3>1. [list |-> snapshot[c], worker |-> target'[c]] \in [list : Seq(Workers), worker : Workers]
      BY <2>1, <2>2, <2>3 DEF Inv, TypeOK
    <3>2. picked' \in Seq([list : Seq(Workers), worker : Workers])
      BY <2>1, <3>1 DEF Inv, TypeOK
    <3>3. /\ pc' \in [Calls -> Finished \cup {"start", "check", "empty", "notified",
                                             "select", "loaded", "sending", "waiting"}]
          /\ target' \in [Calls -> Workers] /\ next' \in Nat
      BY <2>1, <2>2, <2>3 DEF Inv, TypeOK
    <3> QED BY <2>1, <3>2, <3>3 DEF Inv, TypeOK
  <2>5. Serving' /\ NoLostCommand'
    BY <2>1 DEF Inv, TypeOK, Serving, NoLostCommand
  <2> QED BY <2>4, <2>5 DEF Inv
<1>6. CASE SendCommand(c)
  <2>1. CASE UNCHANGED cmds /\ Goto(c, "disconnected")
    BY <1>6, <2>1, GotoStep DEF SendCommand, workers, Finished
  <2>2. CASE /\ Len(cmds[target[c]]) < CmdSize
             /\ cmds' = [cmds EXCEPT ![target[c]] = Append(@, c)]
             /\ Goto(c, "waiting")
    <3>1. /\ pc' = [pc EXCEPT ![c] = "waiting"]
          /\ UNCHANGED <<registry, worker, serving, nextPort, kind, snapshot, target,
                         next, reply, picked>>
      BY <1>6, <2>2 DEF SendCommand, Goto
    <3> DEFINE w == target[c]
    <3>2. w \in Workers /\ cmds[w] \in Seq(Calls) /\ CmdSize \in Nat
      BY BridgeAssumption DEF Inv, TypeOK
    <3>3. /\ Append(cmds[w], c) \in Seq(Calls)
          /\ Len(Append(cmds[w], c)) = Len(cmds[w]) + 1
          /\ ToSet(Append(cmds[w], c)) = ToSet(cmds[w]) \cup {c}
      BY <3>2, Appended
    <3>4. /\ cmds' \in [Workers -> Seq(Calls)]
          /\ cmds'[w] = Append(cmds[w], c) /\ \A v \in Workers : v # w => cmds'[v] = cmds[v]
      BY <2>2, <3>2, <3>3 DEF Inv, TypeOK
    <3>5. \A v \in Workers : Len(cmds'[v]) <= CmdSize
      BY <2>2, <3>2, <3>3, <3>4 DEF Inv, TypeOK
    <3>6. TypeOK' /\ Serving'
      BY <3>1, <3>4, <3>5 DEF Inv, TypeOK, Serving
    <3>7. NoLostCommand'
      <4> SUFFICES ASSUME NEW b \in Calls, pc'[b] = "waiting", reply[b] = "empty"
                   PROVE  b \in ToSet(cmds'[target[b]]) \/ serving[target[b]] = b
        BY <3>1 DEF NoLostCommand, ToSet
      <4>1. CASE b = c
        BY <3>3, <3>4, <4>1
      <4>2. CASE b # c
        <5>1. pc[b] = "waiting" /\ target[b] \in Workers
          BY <3>1, <4>2 DEF Inv, TypeOK
        <5>2. b \in ToSet(cmds[target[b]]) \/ serving[target[b]] = b
          BY <5>1 DEF Inv, NoLostCommand
        <5> QED BY <3>3, <3>4, <5>1, <5>2
      <4> QED BY <4>1, <4>2
    <3> QED BY <3>6, <3>7 DEF Inv
  <2> QED BY <1>6, <2>1, <2>2 DEF SendCommand
<1>7. CASE TakeReply(c)
  BY <1>7, GotoStep DEF TakeReply, Finished
<1>8. CASE Cancel(c)
  BY <1>8, GotoStep DEF Cancel, Finished
<1> QED BY <1>1, <1>2, <1>3, <1>4, <1>5, <1>6, <1>7, <1>8 DEF Call

\* Every step keeps the invariant.
LEMMA NextInv == Inv /\ [Next]_vars => Inv'
<1> SUFFICES ASSUME Inv, [Next]_vars PROVE Inv'
  OBVIOUS
<1>1. ASSUME UNCHANGED <<workers, calls, next, reply, picked>> PROVE Inv'
  BY <1>1 DEF Inv, TypeOK, Serving, NoLostCommand, workers, calls
<1>2. ASSUME NEW c \in Calls, AcceptLoop(c) \/ UseListener(c) PROVE Inv'
  BY <1>1, <1>2 DEF AcceptLoop, UseListener
<1>3. CASE UNCHANGED vars
  BY <1>1, <1>3 DEF vars
<1> QED BY <1>2, <1>3, LcoreStep, CallStep DEF Next

\* The invariant of registry, handle and workers holds.
LEMMA InvHolds == Spec => []Inv
  BY InitInv, NextInv, PTL DEF Spec

-----------------------------------------------------------------------------
(* The listener of a call.                                                 *)

Results == {"ok", "error"} \X Nat

Listeners ==
    [loop : {"none", "accepting", "sending", "ended"}, n : Nat, holds : Seq(Results),
     chan : Seq(Results), os : {"none", "open", "dropped", "disconnected", "finished"},
     got : Seq(Results), relays : SUBSET Nat]

\* The loop holds a result exactly while it sends it.
Holds(l) == Len(l.holds) = IF l.loop = "sending" THEN 1 ELSE 0

\* The results are numbered through, from the OS thread (g) over the channel
\* (ch) to the loop (h) ...
InOrder(g, ch, h) ==
    /\ \A k \in 1 .. Len(g) : g[k][2] = k
    /\ \A k \in 1 .. Len(ch) : ch[k][2] = Len(g) + k
    /\ \A k \in 1 .. Len(h) : h[k][2] = Len(g) + Len(ch) + k

Total(g, ch, h) == Len(g) + Len(ch) + Len(h)

\* ... and none is missing but the one a dropped loop held.
Numbered(l) ==
    l.os = "open" =>
        /\ InOrder(l.got, l.chan, l.holds)
        /\ \/ l.n = Total(l.got, l.chan, l.holds)
           \/ l.loop = "ended" /\ l.n = Total(l.got, l.chan, l.holds) + 1

\* accept_loop takes a result in hand: the next number.
LEMMA HoldInOrder ==
    ASSUME NEW g \in Seq(Results), NEW ch \in Seq(Results), NEW x \in Results,
           InOrder(g, ch, <<>>), x[2] = Total(g, ch, <<>>) + 1
    PROVE  InOrder(g, ch, <<x>>) /\ Total(g, ch, <<x>>) = Total(g, ch, <<>>) + 1
<1>1. Len(<<x>>) = 1 /\ <<x>>[1] = x /\ Len(<<>>) = 0
  OBVIOUS
<1>2. Total(g, ch, <<>>) = Len(g) + Len(ch) /\ Total(g, ch, <<x>>) = Len(g) + Len(ch) + 1
  BY <1>1 DEF Total
<1> QED BY <1>1, <1>2 DEF InOrder

\* It puts the result into the channel, behind the ones there.
LEMMA SendInOrder ==
    ASSUME NEW g \in Seq(Results), NEW ch \in Seq(Results), NEW x \in Results,
           InOrder(g, ch, <<x>>)
    PROVE  /\ InOrder(g, Append(ch, x), <<>>)
           /\ Total(g, Append(ch, x), <<>>) = Total(g, ch, <<x>>)
<1> DEFINE d == Append(ch, x)
<1>1. /\ Len(<<x>>) = 1 /\ <<x>>[1] = x /\ Len(<<>>) = 0
      /\ d \in Seq(Results) /\ Len(d) = Len(ch) + 1
      /\ \A k \in 1 .. Len(d) : d[k] = IF k = Len(ch) + 1 THEN x ELSE ch[k]
  OBVIOUS
<1>2. x[2] = Len(g) + Len(ch) + 1
  BY <1>1 DEF InOrder
<1> HIDE DEF d
<1>3. ASSUME NEW k \in 1 .. Len(d) PROVE d[k][2] = Len(g) + k
  <2>1. \A i \in 1 .. Len(ch) : ch[i][2] = Len(g) + i
    BY DEF InOrder
  <2>2. CASE k = Len(ch) + 1
    BY <1>1, <1>2, <2>2
  <2>3. CASE k # Len(ch) + 1
    <3>1. k \in 1 .. Len(ch) /\ d[k] = ch[k]
      BY <1>1, <2>3
    <3> QED BY <2>1, <3>1
  <2> QED BY <2>2, <2>3
<1>4. Total(g, d, <<>>) = Total(g, ch, <<x>>)
  BY <1>1 DEF Total
<1> QED BY <1>1, <1>3, <1>4 DEF InOrder, d

\* The OS thread receives the oldest result of the channel.
LEMMA ReceiveInOrder ==
    ASSUME NEW g \in Seq(Results), NEW ch \in Seq(Results), NEW h \in Seq(Results),
           InOrder(g, ch, h), ch # <<>>
    PROVE  /\ InOrder(Append(g, Head(ch)), Tail(ch), h)
           /\ Total(Append(g, Head(ch)), Tail(ch), h) = Total(g, ch, h)
<1> DEFINE x == Head(ch)
           d == Tail(ch)
           f == Append(g, x)
<1>1. /\ x \in Results /\ x = ch[1] /\ Len(ch) \in Nat /\ Len(ch) >= 1
      /\ d \in Seq(Results) /\ Len(d) = Len(ch) - 1
      /\ \A k \in 1 .. Len(d) : d[k] = ch[k + 1]
  OBVIOUS
<1>2. x[2] = Len(g) + 1
  BY <1>1 DEF InOrder
<1> HIDE DEF x, d
<1>3. /\ f \in Seq(Results) /\ Len(f) = Len(g) + 1
      /\ \A k \in 1 .. Len(f) : f[k] = IF k = Len(g) + 1 THEN x ELSE g[k]
  BY <1>1
<1> HIDE DEF f
<1>4. \A k \in 1 .. Len(f) : f[k][2] = k
  BY <1>2, <1>3 DEF InOrder
<1>5. ASSUME NEW k \in 1 .. Len(d) PROVE d[k][2] = Len(f) + k
  <2>1. \A i \in 1 .. Len(ch) : ch[i][2] = Len(g) + i
    BY DEF InOrder
  <2>2. k + 1 \in 1 .. Len(ch) /\ d[k] = ch[k + 1] /\ Len(f) + k = Len(g) + (k + 1)
    BY <1>1, <1>3
  <2> QED BY <2>1, <2>2
<1>6. \A k \in 1 .. Len(h) : h[k][2] = Len(f) + Len(d) + k
  BY <1>1, <1>3 DEF InOrder
<1>7. Total(f, d, h) = Total(g, ch, h)
  BY <1>1, <1>3 DEF Total
<1> QED BY <1>4, <1>5, <1>6, <1>7 DEF InOrder, f, d, x

\* A result in hand is lost when the loop ends: it was the last.
LEMMA LoseInOrder ==
    ASSUME NEW g \in Seq(Results), NEW ch \in Seq(Results), NEW h \in Seq(Results),
           InOrder(g, ch, h), Len(h) \in {0, 1}
    PROVE  /\ InOrder(g, ch, <<>>)
           /\ Total(g, ch, h) = Total(g, ch, <<>>) \/ Total(g, ch, h) = Total(g, ch, <<>>) + 1
           /\ Len(h) = 0 => Total(g, ch, h) = Total(g, ch, <<>>)
<1>1. Len(g) \in Nat /\ Len(ch) \in Nat /\ Len(<<>>) = 0
  OBVIOUS
<1>2. InOrder(g, ch, <<>>)
  BY <1>1 DEF InOrder
<1>3. CASE Len(h) = 0
  BY <1>1, <1>2, <1>3 DEF Total
<1>4. CASE Len(h) = 1
  BY <1>1, <1>2, <1>4 DEF Total
<1> QED BY <1>3, <1>4

\* Every stream in the channel or beyond has its relay.
Relayed(l) ==
    /\ \A k \in 1 .. Len(l.got) : l.got[k][1] = "ok" => l.got[k][2] \in l.relays
    /\ \A k \in 1 .. Len(l.chan) : l.chan[k][1] = "ok" => l.chan[k][2] \in l.relays

ToldOfTheEnd(l) ==
    l.os \in {"disconnected", "finished"} => l.loop = "ended" /\ l.chan = <<>>

Delivers(l) ==
    l \in Listeners /\ Holds(l) /\ Numbered(l) /\ Relayed(l) /\ ToldOfTheEnd(l)

ListenerInv == listener \in [Calls -> {l \in Listeners : Delivers(l)}]

\* A listener begins with nothing delivered, whether or not its call still waits.
LEMMA NewListener ==
    ASSUME NEW wanted
    PROVE  /\ Delivers(NoListener)
           /\ Delivers([NoListener EXCEPT !.loop = "accepting",
                                          !.os = IF wanted THEN "open" ELSE "dropped"])
<1>1. <<>> \in Seq(Results) /\ Len(<<>>) = 0
  OBVIOUS
<1> DEFINE m == [NoListener EXCEPT !.loop = "accepting",
                                   !.os = IF wanted THEN "open" ELSE "dropped"]
<1>2. NoListener \in Listeners /\ m \in Listeners
  BY <1>1 DEF NoListener, Listeners
<1>3. /\ m.loop = "accepting" /\ m.n = 0 /\ m.holds = <<>> /\ m.chan = <<>>
      /\ m.got = <<>> /\ m.relays = {} /\ m.os \in {"open", "dropped"}
  BY DEF NoListener
<1> HIDE DEF m
<1>4. Delivers(m)
  <2>1. Total(<<>>, <<>>, <<>>) = 0 /\ InOrder(<<>>, <<>>, <<>>)
    BY <1>1 DEF Total, InOrder
  <2> QED BY <1>1, <1>2, <1>3, <2>1 DEF Delivers, Holds, Numbered, Relayed, ToldOfTheEnd
<1>5. Delivers(NoListener)
  BY <1>1, <1>2 DEF Delivers, Holds, Numbered, Relayed, ToldOfTheEnd, NoListener
<1> QED BY <1>4, <1>5 DEF m

\* Dropping either end keeps the order of what was delivered.
LEMMA DroppedDelivers ==
    ASSUME NEW l, Delivers(l)
    PROVE  Delivers(Dropped(l)) /\ Delivers(LoopDropped(l))
<1>1. <<>> \in Seq(Results) /\ Len(<<>>) = 0
  OBVIOUS
<1>2. Delivers(Dropped(l))
  <2> DEFINE m == [l EXCEPT !.os = "dropped", !.chan = <<>>]
  <2>1. /\ m \in Listeners /\ m.loop = l.loop /\ m.holds = l.holds /\ m.got = l.got
        /\ m.chan = <<>> /\ m.os = "dropped" /\ m.relays = l.relays
    BY <1>1 DEF Delivers, Listeners
  <2> HIDE DEF m
  <2>2. Delivers(m)
    BY <1>1, <2>1 DEF Delivers, Holds, Numbered, Relayed, ToldOfTheEnd
  <2> QED BY <2>2 DEF Dropped, m
<1>3. CASE l.loop = "none"
  BY <1>2, <1>3 DEF LoopDropped
<1>4. CASE l.loop # "none"
  <2> DEFINE m == [l EXCEPT !.loop = "ended", !.holds = <<>>]
  <2>1. /\ m \in Listeners /\ m.loop = "ended" /\ m.holds = <<>> /\ m.n = l.n
        /\ m.got = l.got /\ m.chan = l.chan /\ m.os = l.os /\ m.relays = l.relays
    BY <1>1 DEF Delivers, Listeners
  <2> HIDE DEF m
  <2>2. Numbered(m)
    <3> SUFFICES ASSUME m.os = "open" PROVE Numbered(m)
      BY DEF Numbered
    <3>1. /\ l.got \in Seq(Results) /\ l.chan \in Seq(Results) /\ l.holds \in Seq(Results)
          /\ Len(l.holds) \in {0, 1} /\ (l.loop = "ended" => Len(l.holds) = 0)
      BY DEF Delivers, Listeners, Holds
    <3>2. /\ InOrder(l.got, l.chan, l.holds)
          /\ \/ l.n = Total(l.got, l.chan, l.holds)
             \/ l.loop = "ended" /\ l.n = Total(l.got, l.chan, l.holds) + 1
      BY <2>1 DEF Delivers, Numbered
    <3>3. /\ InOrder(l.got, l.chan, <<>>)
          /\ \/ Total(l.got, l.chan, l.holds) = Total(l.got, l.chan, <<>>)
             \/ Total(l.got, l.chan, l.holds) = Total(l.got, l.chan, <<>>) + 1
          /\ Len(l.holds) = 0 => Total(l.got, l.chan, l.holds) = Total(l.got, l.chan, <<>>)
      BY <3>1, <3>2, LoseInOrder
    <3> QED BY <2>1, <3>1, <3>2, <3>3 DEF Numbered
  <2>3. Delivers(m)
    BY <1>1, <2>1, <2>2 DEF Delivers, Holds, Relayed, ToldOfTheEnd
  <2> QED BY <1>2, <1>4, <2>3 DEF LoopDropped, m
<1> QED BY <1>3, <1>4

\* accept() of the lcore returns the next result.
LEMMA AcceptedDelivers ==
    ASSUME NEW l, Delivers(l), l.loop = "accepting", NEW r \in {"ok", "error"}
    PROVE  Delivers([l EXCEPT !.loop = "sending", !.n = @ + 1, !.holds = <<<<r, l.n + 1>>>>])
<1> DEFINE x == <<r, l.n + 1>>
           m == [l EXCEPT !.loop = "sending", !.n = @ + 1, !.holds = <<x>>]
<1>1. l.n \in Nat /\ l.n + 1 \in Nat /\ x \in Results /\ x[2] = l.n + 1
  BY DEF Delivers, Listeners, Results
<1> HIDE DEF x
<1>2. <<x>> \in Seq(Results) /\ Len(<<x>>) = 1
  BY <1>1
<1>3. /\ m \in Listeners /\ m.loop = "sending" /\ m.n = l.n + 1 /\ m.holds = <<x>>
      /\ m.got = l.got /\ m.chan = l.chan /\ m.os = l.os /\ m.relays = l.relays
  BY <1>1, <1>2 DEF Delivers, Listeners
<1> HIDE DEF m
<1>4. Numbered(m)
  <2> SUFFICES ASSUME m.os = "open" PROVE Numbered(m)
    BY DEF Numbered
  <2>1. l.got \in Seq(Results) /\ l.chan \in Seq(Results) /\ l.holds = <<>>
    <3>1. l.holds \in Seq(Results) /\ Len(l.holds) = 0
      BY DEF Delivers, Listeners, Holds
    <3> QED BY <3>1 DEF Delivers, Listeners
  <2>2. InOrder(l.got, l.chan, <<>>) /\ l.n = Total(l.got, l.chan, <<>>)
    BY <1>3, <2>1 DEF Delivers, Numbered
  <2>3. x[2] = Total(l.got, l.chan, <<>>) + 1
    BY <1>1, <2>2
  <2>4. /\ InOrder(l.got, l.chan, <<x>>)
        /\ Total(l.got, l.chan, <<x>>) = Total(l.got, l.chan, <<>>) + 1
    BY <1>1, <2>1, <2>2, <2>3, HoldInOrder
  <2> QED BY <1>3, <2>2, <2>4 DEF Numbered
<1>5. Delivers(m)
  BY <1>2, <1>3, <1>4 DEF Delivers, Holds, Relayed, ToldOfTheEnd
<1> QED BY <1>5 DEF m, x

\* accept_tx.send puts it in the channel, and a connection gets its relay.
LEMMA SentDelivers ==
    ASSUME NEW l, Delivers(l), l.loop = "sending", l.os = "open"
    PROVE  Delivers([l EXCEPT !.loop = "accepting", !.holds = <<>>,
                              !.chan = Append(l.chan, l.holds[1]),
                              !.relays = IF l.holds[1][1] = "ok"
                                         THEN @ \cup {l.holds[1][2]} ELSE @])
<1> DEFINE x == l.holds[1]
           s == IF x[1] = "ok" THEN l.relays \cup {x[2]} ELSE l.relays
           d == Append(l.chan, x)
           m == [l EXCEPT !.loop = "accepting", !.holds = <<>>, !.chan = d,
                          !.relays = IF x[1] = "ok" THEN @ \cup {x[2]} ELSE @]
<1>1. /\ l.holds \in Seq(Results) /\ Len(l.holds) = 1 /\ l.chan \in Seq(Results)
      /\ l.got \in Seq(Results) /\ l.relays \in SUBSET Nat
  BY DEF Delivers, Listeners, Holds
<1>2. x \in Results /\ x[2] \in Nat /\ l.holds = <<x>>
  BY <1>1 DEF Results
<1> HIDE DEF x
<1>3. /\ s \in SUBSET Nat /\ l.relays \subseteq s /\ (x[1] = "ok" => x[2] \in s)
      /\ <<>> \in Seq(Results) /\ Len(<<>>) = 0
  BY <1>1, <1>2
<1>4. /\ d \in Seq(Results) /\ Len(d) = Len(l.chan) + 1
      /\ \A k \in 1 .. Len(d) : (k \in 1 .. Len(l.chan) /\ d[k] = l.chan[k]) \/ d[k] = x
  BY <1>1, <1>2
<1> HIDE DEF d
<1>5. /\ m \in Listeners /\ m.loop = "accepting" /\ m.n = l.n /\ m.holds = <<>>
      /\ m.got = l.got /\ m.chan = d /\ m.os = l.os /\ m.relays = s
  BY <1>3, <1>4 DEF Delivers, Listeners
<1> HIDE DEF s, m
<1>6. Numbered(m)
  <2>1. InOrder(l.got, l.chan, <<x>>) /\ l.n = Total(l.got, l.chan, <<x>>)
    BY <1>2 DEF Delivers, Numbered
  <2>2. InOrder(l.got, d, <<>>) /\ Total(l.got, d, <<>>) = Total(l.got, l.chan, <<x>>)
    BY <1>1, <1>2, <2>1, SendInOrder DEF d
  <2> QED BY <1>5, <2>1, <2>2 DEF Numbered
<1>7. Relayed(m)
  <2>1. /\ \A k \in 1 .. Len(l.got) : l.got[k][1] = "ok" => l.got[k][2] \in l.relays
        /\ \A k \in 1 .. Len(l.chan) : l.chan[k][1] = "ok" => l.chan[k][2] \in l.relays
    BY DEF Delivers, Relayed
  <2>2. ASSUME NEW k \in 1 .. Len(d), d[k][1] = "ok" PROVE d[k][2] \in s
    BY <1>3, <1>4, <2>1, <2>2
  <2> QED BY <1>3, <1>5, <2>1, <2>2 DEF Relayed
<1>8. Delivers(m)
  BY <1>3, <1>5, <1>6, <1>7 DEF Delivers, Holds, ToldOfTheEnd
<1> QED BY <1>8 DEF m, d, x

\* Once the receiver has gone, what the loop holds goes as well.
LEMMA UnsentDelivers ==
    ASSUME NEW l, Delivers(l), l.loop = "sending", l.os # "open",
           NEW goesOn \in {"ended", "accepting"}
    PROVE  Delivers([l EXCEPT !.loop = goesOn, !.holds = <<>>])
<1> DEFINE m == [l EXCEPT !.loop = goesOn, !.holds = <<>>]
<1>1. <<>> \in Seq(Results) /\ Len(<<>>) = 0
  OBVIOUS
<1>2. /\ m \in Listeners /\ m.loop = goesOn /\ m.holds = <<>> /\ m.os = l.os
      /\ m.got = l.got /\ m.chan = l.chan /\ m.relays = l.relays
  BY <1>1 DEF Delivers, Listeners
<1> HIDE DEF m
<1>3. Delivers(m)
  BY <1>1, <1>2 DEF Delivers, Holds, Numbered, Relayed, ToldOfTheEnd
<1> QED BY <1>3 DEF m

\* accept_rx.recv takes the oldest result of the channel, or learns of the end.
LEMMA ReceivedDelivers ==
    ASSUME NEW l, Delivers(l), l.os = "open", l.chan # <<>>
    PROVE  Delivers([l EXCEPT !.chan = Tail(@), !.got = Append(@, Head(l.chan))])
<1> DEFINE x == Head(l.chan)
           d == Tail(l.chan)
           f == Append(l.got, x)
           m == [l EXCEPT !.chan = Tail(@), !.got = Append(@, x)]
<1>1. l.chan \in Seq(Results) /\ l.got \in Seq(Results) /\ l.holds \in Seq(Results)
  BY DEF Delivers, Listeners
<1>2. /\ x \in Results /\ d \in Seq(Results) /\ 1 \in 1 .. Len(l.chan) /\ x = l.chan[1]
      /\ \A k \in 1 .. Len(d) : k + 1 \in 1 .. Len(l.chan) /\ d[k] = l.chan[k + 1]
  BY <1>1
<1>3. /\ f \in Seq(Results)
      /\ \A k \in 1 .. Len(f) : (k \in 1 .. Len(l.got) /\ f[k] = l.got[k]) \/ f[k] = x
  BY <1>1, <1>2
<1>4. /\ m \in Listeners /\ m.chan = d /\ m.got = f /\ m.loop = l.loop
      /\ m.holds = l.holds /\ m.n = l.n /\ m.os = l.os /\ m.relays = l.relays
  BY <1>2, <1>3 DEF Delivers, Listeners
<1>5. InOrder(l.got, l.chan, l.holds) =>
          InOrder(f, d, l.holds) /\ Total(f, d, l.holds) = Total(l.got, l.chan, l.holds)
  BY <1>1, ReceiveInOrder
<1> HIDE DEF x, d, f, m
<1>6. Numbered(m)
  BY <1>4, <1>5 DEF Delivers, Numbered
<1>7. Relayed(m)
  <2>1. /\ \A k \in 1 .. Len(l.got) : l.got[k][1] = "ok" => l.got[k][2] \in l.relays
        /\ \A k \in 1 .. Len(l.chan) : l.chan[k][1] = "ok" => l.chan[k][2] \in l.relays
    BY DEF Delivers, Relayed
  <2>2. x[1] = "ok" => x[2] \in l.relays
    BY <1>2, <2>1
  <2>3. /\ \A k \in 1 .. Len(f) : f[k][1] = "ok" => f[k][2] \in l.relays
        /\ \A k \in 1 .. Len(d) : d[k][1] = "ok" => d[k][2] \in l.relays
    BY <1>2, <1>3, <2>1, <2>2
  <2> QED BY <1>4, <2>3 DEF Relayed
<1>8. Delivers(m)
  BY <1>4, <1>6, <1>7 DEF Delivers, Holds, ToldOfTheEnd
<1> QED BY <1>8 DEF m, x

\* The OS side sees the end only when the channel is empty.
LEMMA EndedDelivers ==
    ASSUME NEW l, Delivers(l), l.chan = <<>>, l.loop = "ended",
           NEW end \in {"disconnected", "finished"}
    PROVE  Delivers([l EXCEPT !.os = end])
<1> DEFINE m == [l EXCEPT !.os = end]
<1>1. /\ m \in Listeners /\ m.loop = "ended" /\ m.holds = l.holds /\ m.os = end
      /\ m.got = l.got /\ m.chan = <<>> /\ m.relays = l.relays
  BY DEF Delivers, Listeners
<1> HIDE DEF m
<1>2. Delivers(m)
  BY <1>1 DEF Delivers, Holds, Numbered, Relayed, ToldOfTheEnd
<1> QED BY <1>2 DEF m

\* A step of one listener.
LEMMA OneListener ==
    ASSUME ListenerInv, NEW c \in Calls, NEW m,
           listener' = [listener EXCEPT ![c] = m], Delivers(m)
    PROVE  ListenerInv'
  BY DEF ListenerInv, Delivers

\* Every step keeps what each listener delivers in order.
LEMMA ListenerStep ==
    ASSUME TypeOK, ListenerInv, [Next]_vars
    PROVE  ListenerInv'
<1>1. \A c \in Calls : Delivers(listener[c])
  BY DEF ListenerInv
<1>2. ASSUME NEW w \in Workers, ServeListen(w) PROVE ListenerInv'
  <2> DEFINE c == Head(cmds[w])
  <2>1. c \in Calls
    BY <1>2, FirstCommand DEF ServeListen
  <2>2. CASE UNCHANGED listener
    BY <2>2 DEF ListenerInv
  <2>3. CASE StartListening(c, pc[c] = "waiting")
    <3> DEFINE m == [NoListener EXCEPT !.loop = "accepting",
                                       !.os = IF pc[c] = "waiting" THEN "open" ELSE "dropped"]
    <3>1. Delivers(m)
      BY NewListener
    <3>2. listener' = [listener EXCEPT ![c] = m]
      BY <2>3 DEF StartListening
    <3> HIDE DEF m, c
    <3> QED BY <2>1, <3>1, <3>2, OneListener
  <2> QED BY <1>2, <2>2, <2>3 DEF ServeListen
<1>3. ASSUME NEW w \in Workers, WorkerStops(w) PROVE ListenerInv'
  <2>1. \A c \in Calls : Delivers(LoopDropped(listener[c]))
    BY <1>1, DroppedDelivers
  <2>2. listener' = [c \in Calls |-> IF target[c] = w THEN LoopDropped(listener[c])
                                     ELSE listener[c]]
    BY <1>3 DEF WorkerStops
  <2> QED BY <1>1, <2>1, <2>2 DEF ListenerInv, Delivers
<1>4. ASSUME NEW c \in Calls, Cancel(c) PROVE ListenerInv'
  <2> DEFINE m == IF listener[c].os = "open" THEN Dropped(listener[c]) ELSE listener[c]
  <2>1. Delivers(m)
    BY <1>1, DroppedDelivers
  <2>2. listener' = [listener EXCEPT ![c] = m]
    BY <1>4 DEF Cancel, ListenerInv
  <2> HIDE DEF m
  <2> QED BY <2>1, <2>2, OneListener
<1>5. ASSUME NEW c \in Calls, LcoreAccepts(c) PROVE ListenerInv'
  <2>1. PICK r \in {"ok", "error"} :
           listener' = [listener EXCEPT ![c].loop = "sending", ![c].n = @ + 1,
                                        ![c].holds = <<<<r, listener[c].n + 1>>>>]
    BY <1>5 DEF LcoreAccepts
  <2> DEFINE m == [listener[c] EXCEPT !.loop = "sending", !.n = @ + 1,
                                      !.holds = <<<<r, listener[c].n + 1>>>>]
  <2>2. listener' = [listener EXCEPT ![c] = m]
    BY <2>1 DEF ListenerInv
  <2>3. Delivers(m)
    BY <1>1, <1>5, AcceptedDelivers DEF LcoreAccepts
  <2> HIDE DEF m
  <2> QED BY <2>2, <2>3, OneListener
<1>6. ASSUME NEW c \in Calls, SendAccepted(c) PROVE ListenerInv'
  <2> DEFINE l == listener[c]
             m == [l EXCEPT !.loop = "accepting", !.holds = <<>>,
                            !.chan = Append(l.chan, l.holds[1]),
                            !.relays = IF l.holds[1][1] = "ok"
                                       THEN @ \cup {l.holds[1][2]} ELSE @]
             e == [l EXCEPT !.loop = IF l.holds[1][1] = "ok" THEN "ended" ELSE "accepting",
                            !.holds = <<>>]
  <2>1. Delivers(l) /\ l.loop = "sending"
    BY <1>1, <1>6 DEF SendAccepted
  <2>2. CASE l.os = "open" /\ listener' = [listener EXCEPT ![c] = m]
    <3>1. Delivers(m)
      BY <2>1, <2>2, SentDelivers
    <3> HIDE DEF m
    <3> QED BY <2>2, <3>1, OneListener
  <2>3. CASE l.os # "open" /\ listener' = [listener EXCEPT ![c] = e]
    <3>1. Delivers(e)
      BY <2>1, <2>3, UnsentDelivers
    <3> HIDE DEF e
    <3> QED BY <2>3, <3>1, OneListener
  <2> QED BY <1>6, <2>2, <2>3 DEF SendAccepted
<1>7. ASSUME NEW c \in Calls, NEW end \in {"disconnected", "finished"}, Recv(c, end)
      PROVE  ListenerInv'
  <2> DEFINE l == listener[c]
             m == [l EXCEPT !.chan = Tail(@), !.got = Append(@, Head(l.chan))]
             e == [l EXCEPT !.os = end]
  <2>1. Delivers(l) /\ l.os = "open"
    BY <1>1, <1>7 DEF Recv
  <2>2. CASE l.chan # <<>> /\ listener' = [listener EXCEPT ![c].chan = Tail(@),
                                            ![c].got = Append(@, Head(l.chan))]
    <3>1. Delivers(m)
      BY <2>1, <2>2, ReceivedDelivers
    <3>2. listener' = [listener EXCEPT ![c] = m]
      BY <2>2 DEF ListenerInv
    <3> HIDE DEF m
    <3> QED BY <3>1, <3>2, OneListener
  <2>3. CASE l.chan = <<>> /\ l.loop = "ended" /\ listener' = [listener EXCEPT ![c].os = end]
    <3>1. Delivers(e)
      BY <2>1, <2>3, EndedDelivers
    <3>2. listener' = [listener EXCEPT ![c] = e]
      BY <2>3 DEF ListenerInv
    <3> HIDE DEF e
    <3> QED BY <3>1, <3>2, OneListener
  <2> QED BY <1>7, <2>2, <2>3 DEF Recv
<1>8. ASSUME NEW c \in Calls, DropListener(c) PROVE ListenerInv'
  <2>1. Delivers(Dropped(listener[c]))
    BY <1>1, DroppedDelivers
  <2>2. listener' = [listener EXCEPT ![c] = Dropped(listener[c])]
    BY <1>8 DEF DropListener, ListenerInv
  <2> QED BY <2>1, <2>2, OneListener
<1>9. ASSUME NEW c \in Calls, AcceptLoop(c) \/ UseListener(c) PROVE ListenerInv'
  BY <1>5, <1>6, <1>7, <1>8, <1>9 DEF AcceptLoop, UseListener, accept, poll_next
<1>10. ASSUME UNCHANGED listener PROVE ListenerInv'
  BY <1>10 DEF ListenerInv
<1>11. ASSUME NEW w \in Workers, Lcore(w) PROVE ListenerInv'
  <2>1. Register(w) \/ NotifyWaiters(w) \/ ServeConnect(w) \/ HandshakeEnds(w)
           \/ ServeBindUdp(w) => UNCHANGED listener
    BY DEF Register, NotifyWaiters, ServeConnect, HandshakeEnds, ServeBindUdp
  <2> QED BY <1>2, <1>3, <1>10, <1>11, <2>1 DEF Lcore
<1>12. ASSUME NEW c \in Calls, Call(c) PROVE ListenerInv'
  <2>1. UNCHANGED listener
    BY <1>12 DEF Call, Start, CheckReady, StartWaiting, Load, Pick, SendCommand, TakeReply
  <2> QED BY <1>10, <2>1
<1>13. CASE UNCHANGED vars
  BY <1>10, <1>13 DEF vars
<1> QED BY <1>4, <1>9, <1>11, <1>12, <1>13 DEF Next

\* The numbering of the three parts is that of the whole.
LEMMA WholeInOrder ==
    ASSUME NEW g \in Seq(Results), NEW ch \in Seq(Results), NEW h \in Seq(Results),
           InOrder(g, ch, h)
    PROVE  /\ Len(g \o ch \o h) = Total(g, ch, h)
           /\ \A k \in DOMAIN (g \o ch \o h) : (g \o ch \o h)[k][2] = k
<1> DEFINE p == g \o ch
           all == p \o h
<1>1. /\ p \in Seq(Results) /\ Len(p) = Len(g) + Len(ch)
      /\ \A k \in 1 .. Len(p) : p[k] = IF k <= Len(g) THEN g[k] ELSE ch[k - Len(g)]
  OBVIOUS
<1> HIDE DEF p
<1>2. ASSUME NEW k \in 1 .. Len(p) PROVE p[k][2] = k
  <2>1. CASE k <= Len(g)
    BY <1>1, <2>1 DEF InOrder
  <2>2. CASE k > Len(g)
    <3>1. k - Len(g) \in 1 .. Len(ch) /\ p[k] = ch[k - Len(g)]
      BY <1>1, <2>2
    <3>2. ch[k - Len(g)][2] = Len(g) + (k - Len(g))
      BY <3>1 DEF InOrder
    <3> QED BY <3>1, <3>2
  <2> QED BY <1>1, <2>1, <2>2
<1>3. /\ all \in Seq(Results) /\ Len(all) = Len(p) + Len(h)
      /\ \A k \in 1 .. Len(all) : all[k] = IF k <= Len(p) THEN p[k] ELSE h[k - Len(p)]
  <2>1. p \in Seq(Results)
    BY <1>1
  <2>2. h \in Seq(Results)
    OBVIOUS
  <2> QED BY ONLY <2>1, <2>2, JoinedAt, Zenon DEF all
<1> HIDE DEF all
<1>4. ASSUME NEW k \in 1 .. Len(all) PROVE all[k][2] = k
  <2>1. CASE k <= Len(p)
    BY <1>1, <1>2, <1>3, <2>1
  <2>2. CASE k > Len(p)
    <3>1. k - Len(p) \in 1 .. Len(h) /\ all[k] = h[k - Len(p)]
      BY <1>1, <1>3, <2>2
    <3>2. h[k - Len(p)][2] = Len(g) + Len(ch) + (k - Len(p))
      BY <3>1 DEF InOrder
    <3> QED BY <1>1, <3>1, <3>2
  <2> QED BY <1>1, <1>3, <2>1, <2>2
<1>5. Len(all) = Total(g, ch, h)
  BY <1>1, <1>3 DEF Total
<1>6. DOMAIN all = 1 .. Len(all)
  BY <1>3
<1> QED BY <1>4, <1>5, <1>6 DEF all, p

\* The invariant says what ListenerDelivers does.
LEMMA InvDelivers == ListenerInv => ListenerDelivers
<1> SUFFICES ASSUME ListenerInv, NEW c \in DOMAIN listener
             PROVE  LET l == listener[c]
                        all == l.got \o l.chan \o l.holds
                    IN  /\ l.os = "open" =>
                              /\ Len(all) = l.n \/ (l.loop = "ended" /\ Len(all) + 1 = l.n)
                              /\ \A k \in DOMAIN all : all[k][2] = k
                        /\ l.os \in {"disconnected", "finished"} =>
                              l.loop = "ended" /\ l.chan = <<>>
                        /\ \A k \in DOMAIN l.got :
                              l.got[k][1] = "ok" => l.got[k][2] \in l.relays
  BY DEF ListenerDelivers
<1> DEFINE l == listener[c]
           all == l.got \o l.chan \o l.holds
<1>1. Delivers(l)
  BY DEF ListenerInv
<1> HIDE DEF l
<1>2. l.got \in Seq(Results) /\ l.chan \in Seq(Results) /\ l.holds \in Seq(Results)
  BY <1>1 DEF Delivers, Listeners
<1>3. InOrder(l.got, l.chan, l.holds) =>
          Len(all) = Total(l.got, l.chan, l.holds) /\ \A k \in DOMAIN all : all[k][2] = k
  BY <1>2, WholeInOrder
<1> HIDE DEF all
<1>4. l.os = "open" =>
          /\ Len(all) = l.n \/ (l.loop = "ended" /\ Len(all) + 1 = l.n)
          /\ \A k \in DOMAIN all : all[k][2] = k
  BY <1>1, <1>3 DEF Delivers, Numbered
<1>5. l.os \in {"disconnected", "finished"} => l.loop = "ended" /\ l.chan = <<>>
  BY <1>1 DEF Delivers, ToldOfTheEnd
<1>6. \A k \in DOMAIN l.got : l.got[k][1] = "ok" => l.got[k][2] \in l.relays
  BY <1>1, <1>2 DEF Delivers, Relayed
<1> QED BY <1>4, <1>5, <1>6 DEF l, all

-----------------------------------------------------------------------------
(* Round robin: who gets which ticket.                                     *)

\* The tickets are the numbers 0, 1, 2, ..., each selects from a list of
\* distinct workers, and the registry only grows by a worker not yet in it.
Tickets ==
    /\ next = Len(picked)
    /\ IsInjective(registry)
    /\ \A w \in Workers : worker[w] = "off" => \A i \in DOMAIN registry : registry[i] # w
    /\ \A c \in Calls : IsInjective(snapshot[c])
    /\ \A i \in 1 .. Len(picked) :
          /\ Len(picked[i].list) # 0 /\ IsInjective(picked[i].list)
          /\ picked[i].worker = RoundRobin(picked[i].list, i - 1)

\* At the start no ticket is used.
LEMMA TicketsInit == Init => Tickets
<1> SUFFICES ASSUME Init PROVE Tickets
  OBVIOUS
<1>1. IsInjective(<<>>) /\ Len(<<>>) = 0
  BY DEF IsInjective
<1> QED BY <1>1 DEF Init, Tickets

\* Every selection of a worker uses the next ticket.
LEMMA TicketsStep ==
    ASSUME Inv, Tickets, [Next]_vars
    PROVE  Tickets'
<1>1. ASSUME NEW w \in Workers, Register(w) PROVE Tickets'
  <2>1. registry \in Seq(Workers) /\ worker \in [Workers -> {"off", "registered", "idle", "connecting", "stopped"}]
    BY DEF Inv, TypeOK
  <2>2. /\ registry' = Append(registry, w) /\ worker[w] = "off"
        /\ \A v \in Workers : worker'[v] = "off" => worker[v] = "off" /\ v # w
    BY <1>1, <2>1 DEF Register
  <2>3. \A i \in DOMAIN registry : registry[i] # w
    BY <2>2 DEF Tickets
  <2>4. IsInjective(registry')
    BY <2>1, <2>2, <2>3 DEF Tickets, IsInjective
  <2>5. \A v \in Workers : worker'[v] = "off" => \A i \in DOMAIN registry' : registry'[i] # v
    BY <2>1, <2>2 DEF Tickets
  <2>6. UNCHANGED <<next, picked, snapshot>>
    BY <1>1 DEF Register, calls
  <2> QED BY <2>4, <2>5, <2>6 DEF Tickets
<1>2. ASSUME NEW c \in Calls, Load(c) PROVE Tickets'
  <2>1. /\ snapshot \in [Calls -> Seq(Workers)]
        /\ snapshot' = [snapshot EXCEPT ![c] = registry]
        /\ UNCHANGED <<registry, worker, next, picked>>
    BY <1>2 DEF Inv, TypeOK, Load, workers
  <2>2. \A d \in Calls : IsInjective(snapshot'[d])
    BY <2>1 DEF Tickets
  <2> QED BY <2>1, <2>2 DEF Tickets
<1>3. ASSUME NEW c \in Calls, Pick(c) PROVE Tickets'
  <2> DEFINE p == [list |-> snapshot[c], worker |-> RoundRobin(snapshot[c], next)]
  <2>1. /\ picked \in Seq([list : Seq(Workers), worker : Workers])
        /\ snapshot[c] \in Seq(Workers) /\ snapshot[c] # <<>> /\ target \in [Calls -> Workers]
    BY <1>3 DEF Inv, TypeOK, Serving, Pick
  <2>2. /\ picked' = Append(picked, p) /\ next' = next + 1
        /\ UNCHANGED <<registry, worker, snapshot>>
    BY <1>3, <2>1 DEF Pick, workers
  <2>3. Len(p.list) # 0 /\ IsInjective(p.list) /\ p.worker = RoundRobin(p.list, next)
    BY <2>1 DEF Tickets
  <2> HIDE DEF p
  <2>4. next' = Len(picked')
    BY <2>1, <2>2 DEF Tickets
  <2>5. ASSUME NEW i \in 1 .. Len(picked')
        PROVE  /\ Len(picked'[i].list) # 0 /\ IsInjective(picked'[i].list)
               /\ picked'[i].worker = RoundRobin(picked'[i].list, i - 1)
    <3>1. CASE i \in 1 .. Len(picked)
      <4>1. picked'[i] = picked[i]
        BY <2>1, <2>2, <3>1
      <4> QED BY <3>1, <4>1 DEF Tickets
    <3>2. CASE i \notin 1 .. Len(picked)
      <4>1. picked'[i] = p /\ i - 1 = Len(picked)
        BY <2>1, <2>2, <3>2
      <4>2. i - 1 = next
        BY <4>1 DEF Tickets
      <4> QED BY <2>3, <4>1, <4>2
    <3> QED BY <3>1, <3>2
  <2> QED BY <2>2, <2>4, <2>5 DEF Tickets
<1>4. ASSUME UNCHANGED <<registry, next, snapshot, picked>>,
             \A w \in Workers : worker'[w] = "off" => worker[w] = "off"
      PROVE  Tickets'
  BY <1>4 DEF Tickets
<1>5. ASSUME NEW w \in Workers, Lcore(w), ~Register(w) PROVE Tickets'
  <2>1. UNCHANGED <<registry, next, snapshot, picked>>
    BY <1>5 DEF Lcore, NotifyWaiters, ServeConnect, HandshakeEnds, ServeListen,
                ServeBindUdp, WorkerStops, calls
  <2>2. worker \in [Workers -> {"off", "registered", "idle", "connecting", "stopped"}]
    BY DEF Inv, TypeOK
  <2>3. \A v \in Workers : worker'[v] = "off" => worker[v] = "off"
    BY <1>5, <2>2 DEF Lcore, NotifyWaiters, ServeConnect, HandshakeEnds, ServeListen,
                      ServeBindUdp, WorkerStops
  <2> QED BY <1>4, <2>1, <2>3
<1>6. ASSUME NEW c \in Calls, Call(c) \/ Cancel(c) \/ AcceptLoop(c) \/ UseListener(c),
             ~Load(c), ~Pick(c)
      PROVE  Tickets'
  <2>1. UNCHANGED <<registry, next, snapshot, picked, worker>>
    BY <1>6 DEF Call, Start, CheckReady, StartWaiting, SendCommand, TakeReply, Cancel,
                AcceptLoop, UseListener, workers, calls
  <2> QED BY <1>4, <2>1
<1>7. CASE UNCHANGED vars
  BY <1>4, <1>7 DEF vars, workers, calls
<1> QED BY <1>1, <1>2, <1>3, <1>5, <1>6, <1>7 DEF Next

\* Consecutive tickets are dealt evenly.
LEMMA TicketsEven == Inv /\ Tickets => EvenDistribution
<1> DEFINE load(w) == Cardinality({i \in DOMAIN picked : picked[i].worker = w})
<1> SUFFICES ASSUME Inv, Tickets, NEW list \in {picked[i].list : i \in DOMAIN picked},
                    \A i \in DOMAIN picked : picked[i].list = list,
                    NEW v \in ToSet(list), NEW w \in ToSet(list)
             PROVE  load(v) <= load(w) + 1
  BY Zenon DEF EvenDistribution
<1> DEFINE n == Len(list)
           t == Len(picked)
<1>1. picked \in Seq([list : Seq(Workers), worker : Workers])
  BY DEF Inv, TypeOK
<1>2. PICK i0 \in DOMAIN picked : list = picked[i0].list
  OBVIOUS
<1>3. DOMAIN picked = 1 .. t /\ t \in Nat /\ list \in Seq(Workers)
  <2>1. DOMAIN picked = 1 .. t /\ t \in Nat
    BY <1>1
  <2>2. picked[i0] \in [list : Seq(Workers), worker : Workers]
    <3>1. \A S, s : s \in Seq(S) => \A i \in DOMAIN s : s[i] \in S
      OBVIOUS
    <3> QED BY <1>1, <1>2, <3>1, Zenon
  <2> QED BY <1>2, <2>1, <2>2
<1>4. /\ n # 0 /\ IsInjective(list)
      /\ \A i \in 1 .. t : picked[i].worker = RoundRobin(list, i - 1)
  BY <1>2, <1>3 DEF Tickets
<1>5. n \in Nat \ {0} /\ DOMAIN list = 1 .. n
  BY <1>3, <1>4
<1> HIDE DEF t
<1>6. PICK a \in 0 .. n - 1, b \in 0 .. n - 1 : v = list[a + 1] /\ w = list[b + 1]
  <2>1. PICK j \in 1 .. n, k \in 1 .. n : v = list[j] /\ w = list[k]
    BY <1>5 DEF ToSet
  <2> WITNESS j - 1 \in 0 .. n - 1, k - 1 \in 0 .. n - 1
  <2> QED BY <1>5, <2>1
<1>7. ASSUME NEW i \in 1 .. t, NEW d \in 0 .. n - 1
      PROVE  picked[i].worker = list[d + 1] <=> (i - 1) % n = d
  <2>1. (i - 1) % n \in 0 .. n - 1
    <3>1. i - 1 \in Nat
      BY <1>3
    <3> QED BY <1>5, <3>1, Quotient
  <2>2. picked[i].worker = list[((i - 1) % n) + 1]
    BY <1>4 DEF RoundRobin
  <2>3. ((i - 1) % n) + 1 \in DOMAIN list /\ d + 1 \in DOMAIN list
    BY <1>5, <2>1
  <2>4. list[((i - 1) % n) + 1] = list[d + 1] <=> ((i - 1) % n) + 1 = d + 1
    BY <1>4, <2>3 DEF IsInjective
  <2> QED BY <1>5, <2>1, <2>2, <2>4
<1>8. \A d \in 0 .. n - 1 : {i \in DOMAIN picked : picked[i].worker = list[d + 1]}
                                = Dealt(1 .. t, 1, n, d)
  BY <1>3, <1>7 DEF Dealt
<1>9. Cardinality(Dealt(1 .. t, 1, n, a)) <= Cardinality(Dealt(1 .. t, 1, n, b)) + 1
  <2>1. 1 .. t = 1 .. 1 + t - 1
    BY <1>3
  <2> QED BY <1>3, <1>5, <1>6, <2>1, EvenTickets
<1> QED BY <1>6, <1>8, <1>9

-----------------------------------------------------------------------------

\* The bridge keeps its types: tickets select registered workers, and no
\* command channel exceeds its capacity (handle.rs, worker.rs).
THEOREM BridgeTypeCorrect == Spec => []TypeOK
<1>1. Inv => TypeOK
  BY DEF Inv
<1> QED BY <1>1, InvHolds, PTL

\* No call waits for an answer nobody can send any more, whatever workers stop
\* and whatever calls are cancelled (handle.rs:49-58, bridge_worker).
THEOREM CommandsAreNotLost == Spec => []NoLostCommand
<1>1. Inv => NoLostCommand
  BY DEF Inv
<1> QED BY <1>1, InvHolds, PTL

\* An OS thread gets what the lcore accepted, each once and in order, for any
\* capacity of the channel between them (worker.rs:226-252, listener.rs:16-21).
THEOREM AcceptedAreDelivered == Spec => []ListenerDelivers
<1>1. Init => ListenerInv
  BY NewListener DEF Init, ListenerInv, Delivers
<1>2. Inv /\ ListenerInv /\ [Next]_vars => ListenerInv'
  BY ListenerStep DEF Inv
<1> QED BY <1>1, <1>2, InvHolds, InvDelivers, PTL DEF Spec

\* "Round-robin queue selection: Simple, even distribution"
\* (docs/Design/OsThreadBridge.md:223): for any number of workers and calls,
\* however loads of the registry and tickets interleave (worker.rs:58-66).
THEOREM TicketsAreEven == Spec => []EvenDistribution
<1>1. Inv /\ Tickets /\ [Next]_vars => Tickets'
  BY TicketsStep
<1> QED BY <1>1, TicketsInit, TicketsEven, InvHolds, PTL DEF Spec

-----------------------------------------------------------------------------
(* Where a command is until it is answered.                                *)

Live == {"registered", "idle", "connecting"}

\* The command of call c is with worker w, which has not answered it.
With(c, w) ==
    /\ target[c] = w /\ reply[c] = "empty" /\ pc[c] \in {"waiting", "cancelled"}
    /\ worker[w] \in Live

\* What is in a worker's channel or in its hands: every command once, sent to
\* this worker, not yet answered.
InHand(w) ==
    /\ IsInjective(cmds[w]) /\ serving[w] \notin ToSet(cmds[w])
    /\ \A c \in ToSet(cmds[w]) : With(c, w)
    /\ serving[w] # NoCall => With(serving[w], w) /\ worker[w] = "connecting"

\* Nobody answers before the command is sent, and calls know only workers that
\* have registered.
Known ==
    /\ \A c \in Calls : pc[c] \notin Finished \cup {"waiting"} => reply[c] = "empty"
    /\ \A w \in ToSet(registry) : worker[w] # "off"
    /\ \A c \in Calls : \A w \in ToSet(snapshot[c]) : worker[w] # "off"
    /\ \A c \in Calls : pc[c] = "sending" => worker[target[c]] # "off"

PlacedInv == Known /\ \A w \in Workers : InHand(w)

\* At the start all channels are empty.
LEMMA PlacedInit == Init => PlacedInv
<1> SUFFICES ASSUME Init PROVE PlacedInv
  OBVIOUS
<1>1. /\ ToSet(registry) = {} /\ \A c \in Calls : ToSet(snapshot[c]) = {}
      /\ \A w \in Workers : ToSet(cmds[w]) = {} /\ IsInjective(cmds[w])
  BY Empty DEF Init
<1> QED BY <1>1 DEF Init, PlacedInv, Known, InHand

\* A step that changes no channel, no reply and no selected worker, and takes
\* no call back from where its command was sent.
LEMMA PlacedKept ==
    ASSUME Inv, PlacedInv, UNCHANGED <<serving, cmds, reply, target>>,
           worker' \in [Workers -> {"off", "registered", "idle", "connecting", "stopped"}],
           \A w \in Workers : /\ worker[w] # "off" => worker'[w] # "off"
                              /\ worker[w] \in Live => worker'[w] \in Live
                              /\ worker[w] = "connecting" => worker'[w] = "connecting",
           \A c \in Calls : pc[c] \in {"waiting", "cancelled"} =>
                               \/ pc'[c] \in {"waiting", "cancelled"}
                               \/ reply[c] # "empty",
           Known'
    PROVE  PlacedInv'
<1>1. ASSUME NEW w \in Workers PROVE InHand(w)'
  <2>1. /\ IsInjective(cmds[w]) /\ serving[w] \notin ToSet(cmds[w])
        /\ \A c \in ToSet(cmds[w]) : With(c, w)
        /\ serving[w] # NoCall => With(serving[w], w) /\ worker[w] = "connecting"
    BY DEF PlacedInv, InHand
  <2>2. ToSet(cmds[w]) \subseteq Calls /\ serving[w] \in Calls \cup {NoCall}
    BY DEF Inv, TypeOK, ToSet
  <2>3. ASSUME NEW c \in Calls, With(c, w) PROVE With(c, w)'
    BY <2>3 DEF With
  <2>4. cmds'[w] = cmds[w] /\ serving'[w] = serving[w]
    OBVIOUS
  <2> QED BY <2>1, <2>2, <2>3, <2>4 DEF InHand
<1> QED BY <1>1 DEF PlacedInv

\* A worker takes the first command of its channel and answers it, or starts to
\* serve it.
LEMMA PlacedServe ==
    ASSUME Inv, PlacedInv, NEW w \in Workers, worker[w] = "idle", cmds[w] # <<>>,
           cmds' = [cmds EXCEPT ![w] = Tail(@)],
           \/ /\ \E r \in {"ok", "error"} : Answer(Head(cmds[w]), r)
              /\ UNCHANGED <<worker, serving>>
           \/ /\ worker' = [worker EXCEPT ![w] = "connecting"]
              /\ serving' = [serving EXCEPT ![w] = Head(cmds[w])]
              /\ UNCHANGED reply,
           UNCHANGED <<registry, calls>>
    PROVE  PlacedInv'
<1>0. PICK h, t : h = Head(cmds[w]) /\ t = Tail(cmds[w])
  OBVIOUS
<1>1. /\ cmds[w] \in Seq(Calls) /\ IsInjective(cmds[w])
      /\ worker \in [Workers -> {"off", "registered", "idle", "connecting", "stopped"}]
      /\ serving \in [Workers -> Calls \cup {NoCall}] /\ cmds \in [Workers -> Seq(Calls)]
      /\ reply \in [Calls -> {"empty", "ok", "error", "dropped"}] /\ NoCall \notin Calls
  BY BridgeAssumption DEF Inv, TypeOK, PlacedInv, InHand
<1>2. /\ h \in Calls /\ t \in Seq(Calls) /\ ToSet(cmds[w]) = {h} \cup ToSet(t)
      /\ IsInjective(t) /\ h \notin ToSet(t)
  BY <1>0, <1>1, Headed
<1>3. /\ cmds'[w] = t /\ \A v \in Workers : v # w => cmds'[v] = cmds[v]
      /\ UNCHANGED <<registry, pc, snapshot, target>>
  BY <1>0, <1>1 DEF calls
<1>4. With(h, w) /\ serving[w] = NoCall
  BY <1>2 DEF PlacedInv, InHand, Inv, Serving
<1>5. \A v \in Workers : worker'[v] = worker[v] \/ (v = w /\ worker'[v] = "connecting")
  BY <1>1
<1>6. \A c \in Calls : reply'[c] = reply[c] \/ c = h
  BY <1>0, <1>1, <1>2 DEF Answer
<1>7. Known'
  <2>1. \A c \in Calls : pc[c] \notin Finished \cup {"waiting"} => reply'[c] = "empty"
    BY <1>4, <1>6 DEF PlacedInv, Known, With, Finished
  <2>2. ToSet(registry) \subseteq Workers /\ \A c \in Calls : ToSet(snapshot[c]) \subseteq Workers
    <3>1. registry \in Seq(Workers) /\ \A c \in Calls : snapshot[c] \in Seq(Workers)
      BY DEF Inv, TypeOK
    <3>2. \A s \in Seq(Workers) : ToSet(s) \subseteq Workers
      BY DEF ToSet
    <3> QED BY <3>1, <3>2
  <2>3. \A v \in Workers : worker[v] # "off" => worker'[v] # "off"
    BY <1>5
  <2>4. target \in [Calls -> Workers]
    BY DEF Inv, TypeOK
  <2> QED BY <1>3, <2>1, <2>2, <2>3, <2>4 DEF PlacedInv, Known
<1>8. ASSUME NEW v \in Workers, NEW c \in Calls, With(c, v), c # h PROVE With(c, v)'
  BY <1>3, <1>5, <1>6, <1>8 DEF With, Live
<1>9. ASSUME NEW v \in Workers PROVE InHand(v)'
  <2>1. /\ IsInjective(cmds[v]) /\ serving[v] \notin ToSet(cmds[v])
        /\ \A c \in ToSet(cmds[v]) : With(c, v)
        /\ serving[v] # NoCall => With(serving[v], v) /\ worker[v] = "connecting"
        /\ ToSet(cmds[v]) \subseteq Calls /\ serving[v] \in Calls \cup {NoCall}
    BY <1>1 DEF PlacedInv, InHand, ToSet
  <2>2. CASE v # w
    <3>1. cmds'[v] = cmds[v] /\ serving'[v] = serving[v] /\ worker'[v] = worker[v]
      BY <1>1, <1>3, <2>2
    <3>2. h \notin ToSet(cmds[v]) /\ h # serving[v]
      BY <1>1, <1>2, <1>4, <2>1, <2>2 DEF With
    <3> QED BY <1>8, <2>1, <3>1, <3>2 DEF InHand
  <2>3. CASE v = w
    <3>1. cmds'[v] = t /\ IsInjective(t) /\ \A c \in ToSet(t) : With(c, v)'
      BY <1>2, <1>3, <1>8, <2>1, <2>3
    <3>2. CASE UNCHANGED serving
      <4>1. serving'[v] = NoCall /\ NoCall \notin ToSet(t)
        BY <1>1, <1>2, <1>4, <2>1, <2>3, <3>2
      <4> QED BY <3>1, <4>1 DEF InHand
    <3>3. CASE /\ worker' = [worker EXCEPT ![w] = "connecting"]
               /\ serving' = [serving EXCEPT ![w] = h] /\ UNCHANGED reply
      <4>1. serving'[v] = h /\ worker'[v] = "connecting"
        BY <1>1, <2>3, <3>3
      <4>2. With(h, v)'
        BY <1>3, <1>4, <2>3, <3>3, <4>1 DEF With, Live
      <4> QED BY <1>2, <3>1, <4>1, <4>2 DEF InHand
    <3> QED BY <1>0, <3>2, <3>3
  <2> QED BY <2>2, <2>3
<1> QED BY <1>7, <1>9 DEF PlacedInv

\* The steps of a worker keep every command in one place.
LEMMA PlacedLcore == ASSUME Inv, PlacedInv, NEW w \in Workers, Lcore(w) PROVE PlacedInv'
<1>0. /\ worker \in [Workers -> {"off", "registered", "idle", "connecting", "stopped"}]
      /\ serving \in [Workers -> Calls \cup {NoCall}] /\ cmds \in [Workers -> Seq(Calls)]
      /\ reply \in [Calls -> {"empty", "ok", "error", "dropped"}] /\ NoCall \notin Calls
      /\ registry \in Seq(Workers) /\ target \in [Calls -> Workers]
      /\ \A c \in Calls : ToSet(snapshot[c]) \subseteq Workers
      /\ ToSet(registry) \subseteq Workers
      /\ \A v \in Workers : ToSet(cmds[v]) \subseteq Calls
  BY BridgeAssumption DEF Inv, TypeOK, ToSet
<1>1. CASE Register(w)
  <2>1. /\ worker' = [worker EXCEPT ![w] = "registered"] /\ worker[w] = "off"
        /\ registry' = Append(registry, w)
        /\ UNCHANGED <<serving, cmds, pc, snapshot, target, reply>>
    BY <1>1 DEF Register, calls
  <2>2. ToSet(registry') = ToSet(registry) \cup {w}
    BY <1>0, <2>1, Appended
  <2>3. \A v \in Workers : worker'[v] = IF v = w THEN "registered" ELSE worker[v]
    BY <1>0, <2>1
  <2>4. Known'
    BY <1>0, <2>1, <2>2, <2>3 DEF PlacedInv, Known
  <2>5. worker' \in [Workers -> {"off", "registered", "idle", "connecting", "stopped"}]
    BY <1>0, <2>1
  <2> QED BY <2>1, <2>3, <2>4, <2>5, PlacedKept DEF Live
<1>2. CASE NotifyWaiters(w)
  <2>1. /\ worker' = [worker EXCEPT ![w] = "idle"] /\ worker[w] = "registered"
        /\ pc' = [c \in Calls |-> IF pc[c] = "notified" THEN "check" ELSE pc[c]]
        /\ UNCHANGED <<registry, serving, cmds, snapshot, target, reply>>
    BY <1>2 DEF NotifyWaiters
  <2>2. \A v \in Workers : worker'[v] = IF v = w THEN "idle" ELSE worker[v]
    BY <1>0, <2>1
  <2>3. Known'
    BY <1>0, <2>1, <2>2 DEF PlacedInv, Known, Finished
  <2>4. worker' \in [Workers -> {"off", "registered", "idle", "connecting", "stopped"}]
    BY <1>0, <2>1
  <2>5. \A c \in Calls : pc[c] \in {"waiting", "cancelled"} => pc'[c] = pc[c]
    BY <2>1
  <2> QED BY <2>1, <2>2, <2>3, <2>4, <2>5, PlacedKept DEF Live
<1>3. CASE ServeConnect(w) \/ ServeListen(w) \/ ServeBindUdp(w)
  <2>1. /\ worker[w] = "idle" /\ cmds[w] # <<>> /\ cmds' = [cmds EXCEPT ![w] = Tail(@)]
        /\ \/ /\ \E r \in {"ok", "error"} : Answer(Head(cmds[w]), r)
              /\ UNCHANGED <<worker, serving>>
           \/ /\ worker' = [worker EXCEPT ![w] = "connecting"]
              /\ serving' = [serving EXCEPT ![w] = Head(cmds[w])]
              /\ UNCHANGED reply
        /\ UNCHANGED <<registry, calls>>
    BY <1>3 DEF ServeConnect, ServeListen, ServeBindUdp
  <2> QED BY <2>1, PlacedServe
<1>4. CASE HandshakeEnds(w)
  <2>1. PICK r \in {"ok", "error"} : Answer(serving[w], r)
    BY <1>4 DEF HandshakeEnds
  <2>2. /\ worker[w] = "connecting" /\ worker' = [worker EXCEPT ![w] = "idle"]
        /\ serving' = [serving EXCEPT ![w] = NoCall]
        /\ reply' = [reply EXCEPT ![serving[w]] = r]
        /\ UNCHANGED <<registry, cmds, pc, snapshot, target>>
    BY <1>4, <2>1 DEF HandshakeEnds, Answer, calls
  <2>3. /\ \A v \in Workers : worker'[v] = IF v = w THEN "idle" ELSE worker[v]
        /\ \A v \in Workers : serving'[v] = IF v = w THEN NoCall ELSE serving[v]
        /\ \A c \in Calls : c # serving[w] => reply'[c] = reply[c]
    BY <1>0, <2>2
  <2>4. serving[w] # NoCall => With(serving[w], w)
    BY DEF PlacedInv, InHand
  <2>5. Known'
    <3>1. \A c \in Calls : pc[c] \notin Finished \cup {"waiting"} => reply'[c] = "empty"
      BY <1>0, <2>3, <2>4 DEF PlacedInv, Known, With, Finished
    <3> QED BY <1>0, <2>2, <2>3, <3>1 DEF PlacedInv, Known
  <2>6. ASSUME NEW v \in Workers, NEW c \in Calls, With(c, v), c # serving[w] PROVE With(c, v)'
    BY <2>2, <2>3, <2>6 DEF With, Live
  <2>7. ASSUME NEW v \in Workers PROVE InHand(v)'
    <3>1. /\ IsInjective(cmds[v]) /\ serving[v] \notin ToSet(cmds[v])
          /\ \A c \in ToSet(cmds[v]) : With(c, v)
          /\ serving[v] # NoCall => With(serving[v], v) /\ worker[v] = "connecting"
      BY DEF PlacedInv, InHand
    <3>2. cmds'[v] = cmds[v] /\ ToSet(cmds[v]) \subseteq Calls /\ serving[v] \in Calls \cup {NoCall}
      BY <1>0, <2>2
    <3>3. serving[w] \notin ToSet(cmds[v]) /\ (v # w => serving[w] # serving[v] \/ serving[v] = NoCall)
      BY <1>0, <2>4, <3>1, <3>2 DEF With
    <3>4. \A c \in ToSet(cmds[v]) : With(c, v)'
      BY <2>6, <3>1, <3>2, <3>3
    <3>5. CASE v = w
      <4>1. serving'[v] = NoCall /\ NoCall \notin ToSet(cmds[v])
        BY <1>0, <2>3, <3>2, <3>5
      <4> QED BY <3>1, <3>2, <3>4, <4>1 DEF InHand
    <3>6. CASE v # w
      <4>1. serving'[v] = serving[v] /\ worker'[v] = worker[v]
        BY <2>3, <3>6
      <4>2. PICK s : s = serving[v]
        OBVIOUS
      <4>3. s # NoCall => With(s, v)'
        BY <2>6, <3>1, <3>2, <3>3, <3>6, <4>2
      <4> QED BY <3>1, <3>2, <3>4, <4>1, <4>2, <4>3 DEF InHand
    <3> QED BY <3>5, <3>6
  <2> QED BY <2>5, <2>7 DEF PlacedInv
<1>5. CASE WorkerStops(w)
  <2>1. /\ worker[w] \in {"idle", "connecting"} /\ worker' = [worker EXCEPT ![w] = "stopped"]
        /\ serving' = [serving EXCEPT ![w] = NoCall]
        /\ cmds' = [cmds EXCEPT ![w] = <<>>]
        /\ reply' = [c \in Calls |->
                        IF c \in ToSet(cmds[w]) \cup {serving[w]} THEN "dropped" ELSE reply[c]]
        /\ UNCHANGED <<registry, pc, snapshot, target>>
    BY <1>5 DEF WorkerStops, calls
  <2>2. /\ \A v \in Workers : worker'[v] = IF v = w THEN "stopped" ELSE worker[v]
        /\ \A v \in Workers : serving'[v] = IF v = w THEN NoCall ELSE serving[v]
        /\ \A v \in Workers : cmds'[v] = IF v = w THEN <<>> ELSE cmds[v]
    BY <1>0, <2>1
  <2>3. ASSUME NEW c \in Calls, c \in ToSet(cmds[w]) \cup {serving[w]} PROVE With(c, w)
    BY <1>0, <2>3 DEF PlacedInv, InHand
  <2>4. Known'
    <3>1. \A c \in Calls : pc[c] \notin Finished \cup {"waiting"} => reply'[c] = "empty"
      BY <1>0, <2>1, <2>3 DEF PlacedInv, Known, With, Finished
    <3> QED BY <1>0, <2>1, <2>2, <3>1 DEF PlacedInv, Known
  <2>5. ASSUME NEW v \in Workers, NEW c \in Calls, With(c, v), v # w PROVE With(c, v)'
    <3>1. c \notin ToSet(cmds[w]) \cup {serving[w]}
      BY <2>3, <2>5 DEF With
    <3> QED BY <2>1, <2>2, <2>5, <3>1 DEF With, Live
  <2>6. ASSUME NEW v \in Workers PROVE InHand(v)'
    <3>1. CASE v = w
      <4>1. cmds'[v] = <<>> /\ serving'[v] = NoCall
        BY <2>2, <3>1
      <4>2. ToSet(cmds'[v]) = {} /\ IsInjective(cmds'[v])
        BY <4>1, Empty
      <4> QED BY <4>1, <4>2 DEF InHand
    <3>2. CASE v # w
      <4>1. cmds'[v] = cmds[v] /\ serving'[v] = serving[v] /\ worker'[v] = worker[v]
        BY <2>2, <3>2
      <4>2. /\ IsInjective(cmds[v]) /\ serving[v] \notin ToSet(cmds[v])
            /\ \A c \in ToSet(cmds[v]) : With(c, v)
            /\ serving[v] # NoCall => With(serving[v], v) /\ worker[v] = "connecting"
            /\ ToSet(cmds[v]) \subseteq Calls /\ serving[v] \in Calls \cup {NoCall}
        BY <1>0 DEF PlacedInv, InHand
      <4> QED BY <2>5, <3>2, <4>1, <4>2 DEF InHand
    <3> QED BY <3>1, <3>2
  <2> QED BY <2>4, <2>6 DEF PlacedInv
<1> QED BY <1>1, <1>2, <1>3, <1>4, <1>5 DEF Lcore

\* A call that moves on, its channel, its oneshot and its worker left alone.
LEMMA PlacedGoto ==
    ASSUME Inv, PlacedInv, NEW c \in Calls, NEW place,
           pc[c] \in {"waiting", "cancelled"} =>
              place \in {"waiting", "cancelled"} \/ reply[c] # "empty",
           place \in Finished \/ pc[c] \notin Finished \cup {"waiting"},
           place # "sending" /\ place # "waiting",
           Goto(c, place), UNCHANGED <<workers, snapshot, target, reply>>
    PROVE  PlacedInv'
<1>1. /\ UNCHANGED <<registry, worker, serving, cmds, snapshot, target, reply>>
      /\ pc \in [Calls -> Finished \cup {"start", "check", "empty", "notified",
                                       "select", "loaded", "sending", "waiting"}]
      /\ worker \in [Workers -> {"off", "registered", "idle", "connecting", "stopped"}]
  BY DEF workers, Inv, TypeOK
<1>2. \A b \in Calls : pc'[b] = IF b = c THEN place ELSE pc[b]
  BY <1>1 DEF Goto
<1>3. Known'
  BY <1>1, <1>2 DEF PlacedInv, Known
<1> QED BY <1>1, <1>2, <1>3, PlacedKept

\* A call and its cancellation keep every command in one place.
LEMMA PlacedCall ==
    ASSUME Inv, PlacedInv, NEW c \in Calls, Call(c) \/ Cancel(c)
    PROVE  PlacedInv'
<1>0. /\ worker \in [Workers -> {"off", "registered", "idle", "connecting", "stopped"}]
      /\ serving \in [Workers -> Calls \cup {NoCall}] /\ cmds \in [Workers -> Seq(Calls)]
      /\ registry \in Seq(Workers) /\ target \in [Calls -> Workers]
      /\ snapshot \in [Calls -> Seq(Workers)] /\ next \in Nat /\ NoCall \notin Calls
      /\ pc \in [Calls -> Finished \cup {"start", "check", "empty", "notified",
                                       "select", "loaded", "sending", "waiting"}]
      /\ \A v \in Workers : ToSet(cmds[v]) \subseteq Calls
  BY BridgeAssumption DEF Inv, TypeOK, ToSet
<1>1. CASE Start(c)
  BY <1>1, PlacedGoto DEF Start, Finished
<1>2. CASE CheckReady(c)
  BY <1>2, PlacedGoto DEF CheckReady, Finished
<1>3. CASE StartWaiting(c)
  BY <1>3, PlacedGoto DEF StartWaiting, Finished
<1>4. CASE Load(c)
  <2>1. /\ pc[c] = "select" /\ snapshot' = [snapshot EXCEPT ![c] = registry]
        /\ pc' = [pc EXCEPT ![c] = IF registry = <<>> THEN "disconnected" ELSE "loaded"]
        /\ UNCHANGED <<registry, worker, serving, cmds, target, reply>>
    BY <1>4 DEF Load, Goto, workers
  <2>2. \A b \in Calls : /\ snapshot'[b] = IF b = c THEN registry ELSE snapshot[b]
                         /\ b # c => pc'[b] = pc[b]
                         /\ pc'[c] \in {"disconnected", "loaded"}
    BY <1>0, <2>1
  <2>3. Known'
    BY <2>1, <2>2 DEF PlacedInv, Known, Finished
  <2> QED BY <1>0, <2>1, <2>2, <2>3, PlacedKept
<1>5. CASE Pick(c)
  <2>1. PICK w : w = RoundRobin(snapshot[c], next)
    OBVIOUS
  <2>2. /\ pc[c] = "loaded" /\ pc' = [pc EXCEPT ![c] = "sending"]
        /\ target' = [target EXCEPT ![c] = w]
        /\ UNCHANGED <<registry, worker, serving, cmds, snapshot, reply>>
    BY <1>5, <2>1 DEF Pick, Goto, workers
  <2>3. w \in Workers /\ worker[w] # "off"
    <3>1. snapshot[c] \in Seq(Workers) /\ snapshot[c] # <<>>
      BY <1>0, <2>2 DEF Inv, Serving
    <3>2. w \in Workers /\ w \in ToSet(snapshot[c])
      BY <1>0, <2>1, <3>1, RoundRobinPlace DEF RoundRobin, ToSet
    <3> QED BY <3>2 DEF PlacedInv, Known
  <2>4. \A b \in Calls : /\ pc'[b] = IF b = c THEN "sending" ELSE pc[b]
                         /\ target'[b] = IF b = c THEN w ELSE target[b]
    BY <1>0, <2>2, <2>3
  <2>5. Known'
    BY <2>2, <2>3, <2>4 DEF PlacedInv, Known, Finished
  <2>6. ASSUME NEW v \in Workers, NEW b \in Calls, With(b, v) PROVE With(b, v)'
    BY <2>2, <2>4, <2>6 DEF With
  <2>7. ASSUME NEW v \in Workers PROVE InHand(v)'
    <3>1. PICK s : s = serving[v]
      OBVIOUS
    <3>2. /\ IsInjective(cmds[v]) /\ s \notin ToSet(cmds[v])
          /\ \A b \in ToSet(cmds[v]) : With(b, v)
          /\ s # NoCall => With(s, v) /\ worker[v] = "connecting"
          /\ ToSet(cmds[v]) \subseteq Calls /\ s \in Calls \cup {NoCall}
      BY <1>0, <3>1 DEF PlacedInv, InHand
    <3> QED BY <2>2, <2>6, <3>1, <3>2 DEF InHand
  <2> QED BY <2>5, <2>7 DEF PlacedInv
<1>6. CASE SendCommand(c)
  <2>1. CASE UNCHANGED cmds /\ Goto(c, "disconnected")
    <3>1. pc[c] = "sending" /\ UNCHANGED <<workers, snapshot, target, reply>>
      BY <1>6, <2>1 DEF SendCommand, workers
    <3> QED BY <2>1, <3>1, PlacedGoto DEF Finished
  <2>2. CASE /\ worker[target[c]] # "stopped"
             /\ cmds' = [cmds EXCEPT ![target[c]] = Append(@, c)]
             /\ Goto(c, "waiting")
    <3>1. PICK w : w = target[c]
      OBVIOUS
    <3>2. /\ pc[c] = "sending" /\ pc' = [pc EXCEPT ![c] = "waiting"]
          /\ UNCHANGED <<registry, worker, serving, snapshot, target, reply>>
      BY <1>6, <2>2 DEF SendCommand, Goto
    <3>3. w \in Workers /\ worker[w] \in Live /\ reply[c] = "empty"
      BY <1>0, <2>2, <3>1, <3>2 DEF PlacedInv, Known, Live, Finished
    <3>4. /\ \A b \in Calls : pc'[b] = IF b = c THEN "waiting" ELSE pc[b]
          /\ \A v \in Workers : cmds'[v] = IF v = w THEN Append(cmds[w], c) ELSE cmds[v]
      BY <1>0, <2>2, <3>1, <3>2, <3>3
    <3>5. Known'
      BY <3>2, <3>4 DEF PlacedInv, Known, Finished
    <3>6. ASSUME NEW v \in Workers, NEW b \in Calls, With(b, v) PROVE With(b, v)'
      BY <3>2, <3>4, <3>6 DEF With
    <3>7. With(c, w)'
      BY <3>1, <3>2, <3>3, <3>4 DEF With
    <3>8. ASSUME NEW v \in Workers, NEW b \in Calls, With(b, v) PROVE b # c
      BY <3>2, <3>8 DEF With
    <3>9. ASSUME NEW v \in Workers PROVE InHand(v)'
      <4>1. PICK s : s = serving[v]
        OBVIOUS
      <4>2. /\ IsInjective(cmds[v]) /\ s \notin ToSet(cmds[v])
            /\ \A b \in ToSet(cmds[v]) : With(b, v)
            /\ s # NoCall => With(s, v) /\ worker[v] = "connecting"
            /\ ToSet(cmds[v]) \subseteq Calls /\ s \in Calls \cup {NoCall}
            /\ s # c /\ c \notin ToSet(cmds[v])
        BY <1>0, <3>8, <4>1 DEF PlacedInv, InHand
      <4>3. CASE v # w
        <5>1. cmds'[v] = cmds[v]
          BY <3>4, <4>3
        <5> QED BY <3>2, <3>6, <4>1, <4>2, <5>1 DEF InHand
      <4>4. CASE v = w
        <5>0. cmds[v] \in Seq(Calls)
          BY <1>0
        <5>1. /\ cmds'[v] = Append(cmds[v], c) /\ ToSet(Append(cmds[v], c)) = ToSet(cmds[v]) \cup {c}
              /\ IsInjective(Append(cmds[v], c))
          <6>1. /\ ToSet(Append(cmds[v], c)) = ToSet(cmds[v]) \cup {c}
                /\ IsInjective(Append(cmds[v], c))
            BY <4>2, <5>0, Appended
          <6> QED BY <3>4, <4>4, <6>1
        <5>2. \A b \in ToSet(cmds[v]) \cup {c} : With(b, v)'
          BY <3>6, <3>7, <4>2, <4>4
        <5> QED BY <3>2, <3>6, <4>1, <4>2, <5>1, <5>2 DEF InHand
      <4> QED BY <4>3, <4>4
    <3> QED BY <3>5, <3>9 DEF PlacedInv
  <2> QED BY <1>6, <2>1, <2>2 DEF SendCommand
<1>7. CASE TakeReply(c)
  BY <1>7, PlacedGoto DEF TakeReply, Finished
<1>8. CASE Cancel(c)
  BY <1>8, PlacedGoto DEF Cancel, Finished
<1> QED BY <1>1, <1>2, <1>3, <1>4, <1>5, <1>6, <1>7, <1>8 DEF Call

\* A call always has somebody to wait for, and somebody only it waits for: to
\* send, a worker that has registered (and takes commands, or is gone, which the
\* call is told); for its answer, the worker it was sent to, which is alive and has
\* the command in its hands or once in its channel.  What a worker has there was
\* sent to it and is not answered yet, so no oneshot is used twice.
CallsMoveOn ==
    /\ \A c \in Calls : pc[c] = "sending" => worker[target[c]] # "off"
    /\ \A c \in Calls : pc[c] = "waiting" /\ reply[c] = "empty" =>
          /\ worker[target[c]] \in Live
          /\ \/ worker[target[c]] = "connecting" /\ serving[target[c]] = c
             \/ c \in ToSet(cmds[target[c]])
    /\ \A w \in Workers :
          /\ IsInjective(cmds[w]) /\ serving[w] \notin ToSet(cmds[w])
          /\ \A c \in ToSet(cmds[w]) \cup ({serving[w]} \ {NoCall}) :
                target[c] = w /\ reply[c] = "empty"

\* No call of an OS thread waits in vain, for any number of workers and calls,
\* whichever workers stop and whichever calls are cancelled: it has one worker to
\* wait for, and that worker serves its command once (worker.send and reply_rx.await
\* of handle.rs against bridge_worker).  It is the safety half of CallsReturn: what
\* is left to fairness is that workers are polled and handshakes end.
THEOREM CallsNeverStall == Spec => []CallsMoveOn
<1>1. Inv /\ PlacedInv /\ [Next]_vars => PlacedInv'
  <2> SUFFICES ASSUME Inv, PlacedInv, [Next]_vars PROVE PlacedInv'
    OBVIOUS
  <2>1. ASSUME UNCHANGED <<workers, calls, reply>> PROVE PlacedInv'
    <3>1. UNCHANGED <<registry, worker, serving, cmds, pc, snapshot, target, reply>>
      BY <2>1 DEF workers, calls
    <3>2. Known'
      BY <3>1 DEF PlacedInv, Known
    <3>3. worker \in [Workers -> {"off", "registered", "idle", "connecting", "stopped"}]
      BY DEF Inv, TypeOK
    <3> QED BY <3>1, <3>2, <3>3, PlacedKept
  <2>2. ASSUME NEW c \in Calls, AcceptLoop(c) \/ UseListener(c) PROVE PlacedInv'
    BY <2>1, <2>2 DEF AcceptLoop, UseListener
  <2>3. CASE UNCHANGED vars
    BY <2>1, <2>3 DEF vars
  <2> QED BY <2>2, <2>3, PlacedLcore, PlacedCall DEF Next
<1>2. Inv /\ PlacedInv => CallsMoveOn
  <2> SUFFICES ASSUME Inv, PlacedInv PROVE CallsMoveOn
    OBVIOUS
  <2>1. ASSUME NEW c \in Calls, pc[c] = "waiting", reply[c] = "empty"
        PROVE  /\ worker[target[c]] \in Live
               /\ \/ worker[target[c]] = "connecting" /\ serving[target[c]] = c
                  \/ c \in ToSet(cmds[target[c]])
    <3>1. target[c] \in Workers /\ c # NoCall
      BY BridgeAssumption DEF Inv, TypeOK
    <3>2. InHand(target[c])
      BY <3>1 DEF PlacedInv
    <3>3. c \in ToSet(cmds[target[c]]) \/ serving[target[c]] = c
      BY <2>1 DEF Inv, NoLostCommand
    <3> QED BY <3>1, <3>2, <3>3 DEF InHand, With
  <2>2. ASSUME NEW w \in Workers
        PROVE  /\ IsInjective(cmds[w]) /\ serving[w] \notin ToSet(cmds[w])
               /\ \A c \in ToSet(cmds[w]) \cup ({serving[w]} \ {NoCall}) :
                     target[c] = w /\ reply[c] = "empty"
    BY DEF PlacedInv, InHand, With
  <2>3. \A c \in Calls : pc[c] = "sending" => worker[target[c]] # "off"
    BY DEF PlacedInv, Known
  <2> QED BY <2>1, <2>2, <2>3 DEF CallsMoveOn
<1> QED BY <1>1, <1>2, PlacedInit, InvHolds, PTL DEF Spec
=============================================================================
