-------------------------- MODULE TcpReactorProofs --------------------------
(***************************************************************************)
(* Safety of the reactor and its TCP sockets, for any number of sockets,   *)
(* any backlog and any batch size: types, one owner per socket, no lost    *)
(* wakeup, no RST lost by cleanup_orphaned.                                *)
(***************************************************************************)
EXTENDS TcpReactor, SequenceLemmas

-----------------------------------------------------------------------------
(* The inductive invariant.                                                *)

\* Only a stream is awaited on, and only an awaited future sleeps.
StreamTasks ==
    /\ \A h \in Handles : op[h] # "none" => h \in streams
    /\ \A h \in asleep : op[h] # "none"

\* accept() is awaited on a listener; while it sleeps, every slot has its
\* waker, so whatever happens to one of them wakes it.
AcceptTask ==
    /\ accepting => handles # <<>>
    /\ accept_asleep => accepting /\ ToSet(handles) \subseteq recv_waker

Inv == TypeOK /\ OneOwner /\ StreamTasks /\ AcceptTask /\ NoLostWakeup /\ DropSendsRst

-----------------------------------------------------------------------------

\* A listener slot is a socket of the set.
LEMMA SlotsAreHandles ==
    ASSUME TypeOK
    PROVE  /\ ToSet(handles) \subseteq Handles
           /\ \A i \in DOMAIN handles : handles[i] \in Handles
<1>1. handles \in Seq(Handles)
  BY DEF TypeOK
<1>2. \A i \in DOMAIN handles : handles[i] \in Handles
  BY <1>1
<1> QED BY <1>2 DEF ToSet

\* At the start no socket exists and nobody sleeps.
LEMMA InitInv == Init => Inv
<1> SUFFICES ASSUME Init PROVE Inv
  OBVIOUS
<1>1. ToSet(handles) = {} /\ IsInjective(handles) /\ handles \in Seq(Handles)
  BY Empty DEF Init
<1>2. TypeOK
  <2>1. 0 \in 0 .. BatchSize
    BY BatchAssumption
  <2> QED BY <1>1, <2>1 DEF Init, TypeOK
<1>3. OneOwner
  BY <1>1 DEF Init, OneOwner, Free
<1> QED
  BY <1>1, <1>2, <1>3
     DEF Init, Inv, StreamTasks, AcceptTask, NoLostWakeup, DropSendsRst

\* A packet of one socket: the owners stay, and whoever slept on it is woken.
LEMMA PacketStep ==
    ASSUME Inv, NEW h \in Handles, NEW from, NEW to, NEW owes,
           "Free" \notin from, to \in States,
           owes \in {"none", "syn", "fin", "rst"},
           Packet(h, from, to, owes)
    PROVE  Inv'
<1>1. TypeOK'
  <2>1. accept_asleep' \in BOOLEAN
    BY Zenon DEF Packet
  <2>2. packets_processed' \in 0 .. BatchSize
    <3>1. packets_processed < BatchSize /\ packets_processed' = packets_processed + 1
      BY Zenon DEF Packet, BatchOpen, Counted
    <3>2. packets_processed \in 0 .. BatchSize
      BY Zenon DEF Inv, TypeOK
    <3> QED BY ONLY <3>1, <3>2, BatchAssumption
  <2>3. /\ state' \in [Handles -> States \cup {"Free"}]
        /\ unsent' \in [Handles -> {"none", "syn", "fin", "rst"}]
    BY DEF Inv, TypeOK, Packet
  <2> QED BY <2>1, <2>2, <2>3 DEF Inv, TypeOK, Packet, owners
<1>2. Free' = Free
  BY DEF Packet, Free, Inv, TypeOK, States
<1>3. OneOwner'
  BY <1>2 DEF Inv, OneOwner, Packet, owners
<1>4. StreamTasks'
  BY DEF Inv, StreamTasks, Packet, owners
<1>5. AcceptTask'
  BY DEF Inv, AcceptTask, Packet, owners
<1>6. ASSUME accept_asleep' PROVE Acceptable' = {}
  <2>1. h \notin ToSet(handles)
    BY <1>6 DEF Packet, Inv, AcceptTask
  <2>2. \A i \in DOMAIN handles : handles[i] # h
    BY <2>1 DEF ToSet
  <2>3. Acceptable = {} /\ handles' = handles
    BY <1>6 DEF Packet, Inv, NoLostWakeup, owners
  <2> QED BY <2>2, <2>3, SlotsAreHandles DEF Packet, Acceptable, Inv, TypeOK
<1>7. NoLostWakeup'
  BY <1>6 DEF Packet, Inv, TypeOK, NoLostWakeup, Dead
<1>8. DropSendsRst'
  BY DEF Packet, Inv, DropSendsRst
<1> QED BY <1>1, <1>3, <1>4, <1>5, <1>7, <1>8 DEF Inv

\* A segment that arrives wakes whoever waits for its socket.
LEMMA IngressStep ==
    ASSUME Inv, NEW h \in Handles, Ingress(h)
    PROVE  Inv'
<1>1. unsent[h] \in {"none", "syn", "fin", "rst"}
  BY DEF Inv, TypeOK
<1> USE DEF States, ShuttingDown
<1>2. CASE RecvSyn(h)
  BY <1>2, PacketStep DEF RecvSyn
<1>3. CASE RecvHandshake(h)
  BY <1>3, PacketStep DEF RecvHandshake
<1>4. CASE RecvFin(h)
  BY <1>1, <1>4, PacketStep DEF RecvFin
<1>5. CASE RecvAckOfFin(h)
  BY <1>5, PacketStep DEF RecvAckOfFin
<1>6. CASE RecvRst(h)
  BY <1>6, PacketStep DEF RecvRst
<1> QED BY <1>2, <1>3, <1>4, <1>5, <1>6 DEF Ingress

\* What cleanup_orphaned removes nobody else holds, and after an egress that
\* sent everything none of it owes a RST.
LEMMA EndRoundStep == ASSUME Inv, EndRound PROVE Inv'
<1> DEFINE removed == {h \in orphaned_closing : Removable(h)}
<1>1. PICK sent \in SUBSET Pending :
        /\ unsent' = [h \in Handles |-> IF h \in removed THEN "none" ELSE AfterEgress(sent)[h]]
        /\ state' = [h \in Handles |-> IF h \in removed THEN "Free" ELSE state[h]]
        /\ orphaned_closing' = orphaned_closing \ removed
        /\ lost_rst' = lost_rst \cup
               {IF sent = Pending THEN "cleanup_orphaned" ELSE "no TX token" :
                    h \in {r \in removed : AfterEgress(sent)[r] = "rst"}}
  BY Zenon DEF EndRound
<1>2. removed \subseteq orphaned_closing /\ removed \subseteq Handles
  BY DEF Inv, TypeOK
<1>3. /\ turn' = "tasks" /\ packets_processed' = 0
      /\ UNCHANGED <<streams, handles, op, accepting, asleep, accept_asleep, recv_waker>>
  BY DEF EndRound, tasks
<1> HIDE DEF removed
<1>4. TypeOK'
  <2>1. unsent' \in [Handles -> {"none", "syn", "fin", "rst"}]
    BY <1>1 DEF Inv, TypeOK, AfterEgress
  <2>2. state' \in [Handles -> States \cup {"Free"}]
    BY <1>1 DEF Inv, TypeOK
  <2>3. lost_rst' \subseteq {"cleanup_orphaned", "no TX token", "drop", "drop listener"}
    BY <1>1 DEF Inv, TypeOK
  <2>4. packets_processed' \in 0 .. BatchSize
    BY <1>3, BatchAssumption
  <2> QED BY <1>1, <1>3, <2>1, <2>2, <2>3, <2>4 DEF Inv, TypeOK
<1>5. OneOwner'
  <2>1. Free' = Free \cup removed
    BY <1>1, <1>2 DEF Free
  <2>2. removed \cap streams = {} /\ removed \cap ToSet(handles) = {}
    BY <1>2 DEF Inv, OneOwner
  <2> QED BY <1>1, <1>2, <1>3, <2>1, <2>2 DEF Inv, OneOwner
<1>6. StreamTasks' /\ AcceptTask'
  BY <1>3 DEF Inv, StreamTasks, AcceptTask
<1>7. \A h \in Handles : state'[h] = state[h] \/ state'[h] = "Free"
  BY <1>1
<1>8. NoLostWakeup'
  <2>1. Acceptable' \subseteq Acceptable
    BY <1>3, <1>7, SlotsAreHandles DEF Acceptable, Inv
  <2>2. \A h \in asleep : h \in Handles
    BY DEF Inv, TypeOK
  <2> QED BY <1>3, <1>7, <2>1, <2>2 DEF Inv, NoLostWakeup, Dead
<1>9. DropSendsRst'
  <2>1. ASSUME sent = Pending, NEW r \in removed PROVE AfterEgress(sent)[r] # "rst"
    BY <1>2, <2>1 DEF AfterEgress, Pending
  <2> QED BY <1>1, <2>1 DEF Inv, DropSendsRst
<1> QED BY <1>4, <1>5, <1>6, <1>8, <1>9 DEF Inv

\* Steps of the loop that touch no socket and no task.
LEMMA LoopStep ==
    ASSUME Inv, RecvOther \/ NextRound \/ Cancelled \/ UNCHANGED vars
    PROVE  Inv'
<1>1. /\ UNCHANGED <<state, unsent, streams, handles, orphaned_closing, op, accepting,
                     asleep, accept_asleep, recv_waker, lost_rst>>
      /\ turn' \in {"ingress", "tasks", "stopped"}
      /\ packets_processed' = packets_processed \/
            (packets_processed < BatchSize /\ packets_processed' = packets_processed + 1)
  BY DEF RecvOther, NextRound, Cancelled, vars, sockets, owners, tasks, loop,
         BatchOpen, Counted, Inv, TypeOK
<1>2. packets_processed' \in 0 .. BatchSize
  <2>1. packets_processed \in 0 .. BatchSize
    BY DEF Inv, TypeOK
  <2> QED BY ONLY <1>1, <2>1, BatchAssumption
<1>3. TypeOK'
  BY <1>1, <1>2 DEF Inv, TypeOK
<1> QED
  BY <1>1, <1>3 DEF Inv, OneOwner, Free, StreamTasks, AcceptTask, NoLostWakeup,
                    Acceptable, DropSendsRst

-----------------------------------------------------------------------------
(* TcpStream                                                               *)

\* TcpStream::connect takes a free handle.
LEMMA ConnectStep == ASSUME Inv, NEW h \in Handles, Connect(h) PROVE Inv'
<1>1. /\ h \in Free /\ h \notin streams /\ h \notin orphaned_closing
      /\ h \notin ToSet(handles) /\ h \notin asleep
  BY DEF Connect, Inv, OneOwner, StreamTasks
<1>2. /\ state' = [state EXCEPT ![h] = "SynSent"]
      /\ unsent' = [unsent EXCEPT ![h] = "syn"]
      /\ streams' = streams \cup {h}
      /\ UNCHANGED <<handles, orphaned_closing, op, accepting, asleep, accept_asleep,
                     recv_waker, turn, packets_processed, lost_rst>>
  BY DEF Connect, tasks, loop
<1>3. TypeOK'
  BY <1>2 DEF Inv, TypeOK, States
<1>4. OneOwner'
  <2>1. Free' = Free \ {h}
    BY <1>2 DEF Free, Inv, TypeOK
  <2> QED BY <1>1, <1>2, <2>1 DEF Inv, OneOwner, Free
<1>5. StreamTasks' /\ AcceptTask' /\ DropSendsRst'
  BY <1>2 DEF Inv, StreamTasks, AcceptTask, DropSendsRst
<1>6. NoLostWakeup'
  <2>1. Acceptable' \subseteq Acceptable
    <3>1. \A i \in DOMAIN handles : handles[i] \in Handles /\ handles[i] # h
      BY <1>1, SlotsAreHandles DEF ToSet, Inv
    <3> QED BY <1>2, <3>1 DEF Acceptable, Inv, TypeOK
  <2> QED BY <1>1, <1>2, <2>1 DEF Inv, TypeOK, NoLostWakeup
<1> QED BY <1>3, <1>4, <1>5, <1>6 DEF Inv

\* Polling wait_connected or close for the first time keeps the invariant.
LEMMA AwaitStep ==
    ASSUME Inv, NEW h \in Handles, NEW future \in {"wait_connected", "close"},
           Await(h, future)
    PROVE  Inv'
<1>1. /\ op' = [op EXCEPT ![h] = future] /\ op[h] = "none" /\ h \in streams
      /\ UNCHANGED <<state, unsent, streams, handles, orphaned_closing, accepting, asleep,
                     accept_asleep, recv_waker, turn, packets_processed, lost_rst>>
  BY DEF Await, sockets, owners, loop
<1>2. TypeOK'
  BY <1>1 DEF Inv, TypeOK
<1>3. h \notin asleep /\ \A g \in Handles \ {h} : op'[g] = op[g]
  BY <1>1 DEF Inv, StreamTasks, TypeOK
<1>4. StreamTasks' /\ NoLostWakeup'
  BY <1>1, <1>3 DEF Inv, TypeOK, StreamTasks, NoLostWakeup, Acceptable
<1>5. OneOwner' /\ AcceptTask' /\ DropSendsRst'
  BY <1>1 DEF Inv, OneOwner, Free, AcceptTask, DropSendsRst
<1> QED BY <1>2, <1>4, <1>5 DEF Inv

\* A future of a stream returns, or sleeps on a socket in which what it waits
\* for has not happened.
LEMMA FutureStep ==
    ASSUME Inv, NEW h \in Handles, NEW s \in States, NEW owes \in {"none", "fin", "rst"},
           op[h] # "none", h \notin asleep,
           \/ UNCHANGED <<state, unsent>> /\ state[h] = s
           \/ /\ state' = [state EXCEPT ![h] = s] /\ s # "Established"
              /\ unsent' = [unsent EXCEPT ![h] = owes],
           \/ Return(h)
           \/ Sleep(h) /\ s \notin Dead /\ (op[h] = "wait_connected" => s # "Established"),
           UNCHANGED <<streams, handles, orphaned_closing, accepting, accept_asleep,
                       recv_waker, turn, packets_processed, lost_rst>>
    PROVE  Inv'
<1>1. /\ h \in streams /\ h \notin Free
      /\ h \notin orphaned_closing /\ h \notin ToSet(handles)
  BY DEF Inv, StreamTasks, OneOwner, Free
<1>2. /\ state' \in [Handles -> States \cup {"Free"}]
      /\ unsent' \in [Handles -> {"none", "syn", "fin", "rst"}]
      /\ state'[h] = s /\ \A g \in Handles \ {h} : state'[g] = state[g]
  <2>1. /\ state \in [Handles -> States \cup {"Free"}]
        /\ unsent \in [Handles -> {"none", "syn", "fin", "rst"}]
    BY DEF Inv, TypeOK
  <2>2. CASE UNCHANGED <<state, unsent>> /\ state[h] = s
    BY <2>1, <2>2
  <2>3. CASE /\ state' = [state EXCEPT ![h] = s]
             /\ unsent' = [unsent EXCEPT ![h] = owes]
    BY <2>1, <2>3
  <2> QED BY <2>2, <2>3
<1>3. op' \in [Handles -> {"none", "wait_connected", "close"}] /\ asleep' \subseteq Handles
  BY DEF Inv, TypeOK, Return, Sleep
<1>4. TypeOK'
  BY <1>2, <1>3 DEF Inv, TypeOK
<1>5. OneOwner'
  <2>1. Free' = Free
    BY <1>1, <1>2 DEF Free, States, Inv, TypeOK
  <2> QED BY <2>1 DEF Inv, OneOwner
<1>6. StreamTasks'
  <2>1. CASE Return(h)
    BY <2>1 DEF Inv, TypeOK, StreamTasks, Return
  <2>2. CASE Sleep(h)
    BY <2>2 DEF Inv, TypeOK, StreamTasks, Sleep
  <2> QED BY <2>1, <2>2
<1>7. AcceptTask' /\ DropSendsRst'
  BY DEF Inv, AcceptTask, DropSendsRst
<1>8. NoLostWakeup'
  <2>1. Acceptable' = Acceptable
    <3>1. \A i \in DOMAIN handles : handles[i] \in Handles /\ handles[i] # h
      BY <1>1, SlotsAreHandles DEF ToSet, Inv
    <3> QED BY <1>2, <3>1 DEF Acceptable
  <2>2. asleep \subseteq Handles /\ op \in [Handles -> {"none", "wait_connected", "close"}]
    BY DEF Inv, TypeOK
  <2>3. ASSUME NEW g \in asleep'
        PROVE  /\ op'[g] = "close" => state'[g] \notin Dead
               /\ op'[g] = "wait_connected" => state'[g] \notin Dead \cup {"Established"}
    <3>1. CASE g = h
      BY <1>2, <2>3, <3>1 DEF Return, Sleep
    <3>2. CASE g # h
      <4>1. g \in asleep /\ op'[g] = op[g] /\ state'[g] = state[g]
        BY <1>2, <2>2, <2>3, <3>2 DEF Return, Sleep
      <4> QED BY <4>1 DEF Inv, NoLostWakeup
    <3> QED BY <3>1, <3>2
  <2> QED BY <2>1, <2>3 DEF Inv, NoLostWakeup
<1> QED BY <1>4, <1>5, <1>6, <1>7, <1>8 DEF Inv

\* A stream, and whatever an operation waits for, is an open socket with one owner.
LEMMA StreamIsOpen ==
    ASSUME Inv, NEW h \in Handles, h \in streams \/ op[h] # "none"
    PROVE  /\ h \in streams /\ state[h] \in States /\ h \notin Free
           /\ h \notin orphaned_closing /\ h \notin ToSet(handles)
  BY DEF Inv, StreamTasks, OneOwner, Free, TypeOK

\* A poll of wait_connected registers its waker or is ready.
LEMMA PollWaitConnectedStep ==
    ASSUME Inv, NEW h \in Handles, PollWaitConnected(h)
    PROVE  Inv'
<1>1. /\ op[h] = "wait_connected" /\ h \notin asleep
      /\ UNCHANGED <<state, unsent, streams, handles, orphaned_closing, accepting,
                     accept_asleep, recv_waker, turn, packets_processed, lost_rst>>
  BY DEF PollWaitConnected, Polled, sockets, owners, loop
<1>2. Return(h) \/ (Sleep(h) /\ state[h] \notin Dead /\ state[h] # "Established")
  BY DEF PollWaitConnected
<1>3. state[h] \in States
  BY <1>1, StreamIsOpen
<1> QED BY <1>1, <1>2, <1>3, FutureStep

\* A poll of close registers its waker or is ready.
LEMMA PollCloseStep == ASSUME Inv, NEW h \in Handles, PollClose(h) PROVE Inv'
<1>1. /\ op[h] = "close" /\ h \notin asleep
      /\ UNCHANGED <<streams, handles, orphaned_closing, accepting,
                     accept_asleep, recv_waker, turn, packets_processed, lost_rst>>
  BY DEF PollClose, Polled, owners, loop
<1>2. state[h] \in States /\ state \in [Handles -> States \cup {"Free"}]
  BY <1>1, StreamIsOpen DEF Inv, TypeOK
<1>3. CASE state[h] \in Dead /\ Return(h) /\ UNCHANGED sockets
  BY <1>1, <1>2, <1>3, FutureStep DEF sockets
<1>4. CASE state[h] \in ShuttingDown /\ Sleep(h) /\ UNCHANGED sockets
  <2>1. state[h] \notin Dead
    BY <1>4 DEF ShuttingDown, Dead
  <2> QED BY <1>1, <1>2, <1>4, <2>1, FutureStep DEF sockets
<1>5. CASE /\ state' = [state EXCEPT ![h] = AfterClose(h)[1]]
           /\ unsent' = [unsent EXCEPT ![h] = AfterClose(h)[2]]
           /\ IF state'[h] \in Dead THEN Return(h) ELSE Sleep(h)
  <2> DEFINE s == AfterClose(h)[1]
             owes == AfterClose(h)[2]
  <2>1. s \in {"Closed", "LastAck", "FinWait1"} /\ owes \in {"none", "fin", "rst"}
    BY DEF AfterClose
  <2> HIDE DEF s, owes
  <2>2. /\ state' = [state EXCEPT ![h] = s] /\ unsent' = [unsent EXCEPT ![h] = owes]
        /\ state'[h] = s
    BY <1>2, <1>5 DEF s, owes
  <2>3. s \in States /\ s # "Established"
    BY <2>1 DEF States
  <2>4. Return(h) \/ (Sleep(h) /\ s \notin Dead)
    BY <1>5, <2>2
  <2> QED BY <1>1, <2>1, <2>2, <2>3, <2>4, FutureStep
<1> QED BY <1>3, <1>4, <1>5 DEF PollClose

\* abort() keeps the invariant.
LEMMA AbortStep == ASSUME Inv, NEW h \in Handles, Abort(h) PROVE Inv'
<1>1. /\ h \in streams /\ op[h] = "none"
      /\ state' = [state EXCEPT ![h] = "Closed"]
      /\ unsent' = [unsent EXCEPT ![h] = AfterAbort(h)]
      /\ UNCHANGED <<streams, handles, orphaned_closing, op, accepting, asleep,
                     accept_asleep, recv_waker, turn, packets_processed, lost_rst>>
  BY DEF Abort, owners, tasks, loop
<1>2. h \notin Free /\ h \notin ToSet(handles) /\ h \notin asleep
  BY <1>1, StreamIsOpen DEF Inv, StreamTasks
<1>3. TypeOK'
  BY <1>1 DEF Inv, TypeOK, AfterAbort, States
<1>4. OneOwner'
  <2>1. Free' = Free
    BY <1>1, <1>2 DEF Inv, TypeOK, Free
  <2> QED BY <1>1, <2>1 DEF Inv, OneOwner
<1>5. NoLostWakeup'
  <2>1. Acceptable' = Acceptable
    <3>1. \A i \in DOMAIN handles : handles[i] \in Handles /\ handles[i] # h
      BY <1>2, SlotsAreHandles DEF ToSet, Inv
    <3> QED BY <1>1, <3>1 DEF Acceptable, Inv, TypeOK
  <2> QED BY <1>1, <1>2, <2>1 DEF Inv, TypeOK, NoLostWakeup
<1>6. StreamTasks' /\ AcceptTask' /\ DropSendsRst'
  BY <1>1 DEF Inv, StreamTasks, AcceptTask, DropSendsRst
<1> QED BY <1>3, <1>4, <1>5, <1>6 DEF Inv

\* The dropped stream's socket is freed or becomes an orphan; nobody sleeps on
\* it any more.
LEMMA DropStreamStep == ASSUME Inv, NEW h \in Handles, DropStream(h) PROVE Inv'
<1>1. /\ h \in streams /\ streams' = streams \ {h}
      /\ op' = [op EXCEPT ![h] = "none"] /\ asleep' = asleep \ {h}
      /\ UNCHANGED <<handles, accepting, accept_asleep, turn, packets_processed>>
  BY DEF DropStream, loop
<1>2. /\ h \notin Free /\ h \notin ToSet(handles) /\ h \notin orphaned_closing
      /\ state[h] \in States
  BY <1>1, StreamIsOpen
<1>3. /\ state' \in [Handles -> States \cup {"Free"}]
      /\ unsent' \in [Handles -> {"none", "syn", "fin", "rst"}]
      /\ \A g \in Handles \ {h} : state'[g] = state[g]
      /\ \/ state'[h] = "Free" /\ orphaned_closing' = orphaned_closing
         \/ state'[h] # "Free" /\ orphaned_closing' = orphaned_closing \cup {h}
  <2>1. /\ state \in [Handles -> States \cup {"Free"}]
        /\ unsent \in [Handles -> {"none", "syn", "fin", "rst"}]
    BY DEF Inv, TypeOK
  <2>2. CASE /\ state' = [state EXCEPT ![h] = "Free"]
             /\ unsent' = [unsent EXCEPT ![h] = "none"]
             /\ UNCHANGED orphaned_closing
    BY <2>1, <2>2
  <2>3. CASE /\ state[h] \in ShuttingDown
             /\ orphaned_closing' = orphaned_closing \cup {h}
             /\ UNCHANGED sockets
    BY <1>2, <2>1, <2>3 DEF sockets, States
  <2>4. CASE AbortActive(h) /\ orphaned_closing' = orphaned_closing \cup {h}
    BY <2>1, <2>4 DEF AbortActive, AfterAbort, States
  <2> QED BY <2>2, <2>3, <2>4 DEF DropStream
<1>4. recv_waker' \in {recv_waker, recv_waker \ {h}} /\ lost_rst' \subseteq lost_rst \cup {"drop"}
  BY DEF DropStream
<1>5. TypeOK'
  BY <1>1, <1>3, <1>4 DEF Inv, TypeOK
<1>6. OneOwner'
  <2>1. CASE state'[h] = "Free" /\ orphaned_closing' = orphaned_closing
    <3>1. Free' = Free \cup {h}
      BY <1>3, <2>1 DEF Free
    <3> QED BY <1>1, <1>2, <2>1, <3>1 DEF Inv, OneOwner
  <2>2. CASE state'[h] # "Free" /\ orphaned_closing' = orphaned_closing \cup {h}
    <3>1. Free' = Free
      BY <1>2, <1>3, <2>2 DEF Free
    <3> QED BY <1>1, <1>2, <2>2, <3>1 DEF Inv, OneOwner
  <2> QED BY <1>3, <2>1, <2>2
<1>7. StreamTasks'
  BY <1>1 DEF Inv, TypeOK, StreamTasks
<1>8. AcceptTask' /\ DropSendsRst'
  BY <1>1, <1>2, <1>4 DEF Inv, AcceptTask, DropSendsRst
<1>9. NoLostWakeup'
  <2>1. Acceptable' = Acceptable
    <3>1. \A i \in DOMAIN handles : handles[i] \in Handles /\ handles[i] # h
      BY <1>2, SlotsAreHandles DEF ToSet, Inv
    <3> QED BY <1>1, <1>3, <3>1 DEF Acceptable
  <2>2. \A g \in asleep' : g \in Handles \ {h} /\ g \in asleep /\ op'[g] = op[g]
    BY <1>1 DEF Inv, TypeOK
  <2> QED BY <1>1, <1>3, <2>1, <2>2 DEF Inv, NoLostWakeup
<1> QED BY <1>5, <1>6, <1>7, <1>8, <1>9 DEF Inv

-----------------------------------------------------------------------------
(* TcpListener                                                             *)

\* TcpListener::bind fills its slots with free handles.
LEMMA BindStep == ASSUME Inv, Bind PROVE Inv'
<1>1. PICK new \in [1 .. Backlog -> Free] :
        /\ IsInjective(new) /\ handles' = new
        /\ state' = [h \in Handles |-> IF h \in ToSet(new) THEN "Listen" ELSE state[h]]
  BY DEF Bind
<1>2. /\ handles = <<>>
      /\ UNCHANGED <<unsent, streams, orphaned_closing, op, accepting, asleep,
                     accept_asleep, recv_waker, turn, packets_processed, lost_rst>>
  BY DEF Bind, tasks, loop
<1>3. ~accepting /\ ~accept_asleep
  BY <1>2 DEF Inv, AcceptTask
<1>4. new \in Seq(Handles) /\ ToSet(new) \subseteq Free /\ Free \subseteq Handles
  BY <1>1, BacklogAssumption DEF ToSet, Free
<1>5. TypeOK'
  BY <1>1, <1>2, <1>4 DEF Inv, TypeOK, States
<1>6. OneOwner'
  <2>1. Free' = Free \ ToSet(new)
    BY <1>1, <1>4 DEF Free
  <2>2. ToSet(handles) = {}
    BY <1>2, Empty
  <2>3. /\ streams \cap orphaned_closing = {}
        /\ streams \cup orphaned_closing = Handles \ Free
    BY <2>2 DEF Inv, OneOwner
  <2> QED BY <1>1, <1>2, <1>4, <2>1, <2>3 DEF OneOwner
<1>7. StreamTasks' /\ AcceptTask' /\ DropSendsRst'
  BY <1>2, <1>3 DEF Inv, StreamTasks, AcceptTask, DropSendsRst
<1>8. NoLostWakeup'
  <2>1. \A h \in asleep : h \in Handles /\ h \notin ToSet(new)
    BY <1>4 DEF Inv, StreamTasks, OneOwner, TypeOK
  <2> QED BY <1>1, <1>2, <1>3, <2>1 DEF Inv, NoLostWakeup
<1> QED BY <1>5, <1>6, <1>7, <1>8 DEF Inv

\* Steps of the accept task that leave sockets and owners alone.
LEMMA AcceptTaskStep ==
    ASSUME Inv, Accept \/ PollAcceptDead \/ PollAcceptPending
    PROVE  Inv'
<1>1. UNCHANGED <<state, unsent, streams, handles, orphaned_closing, op, asleep,
                  turn, packets_processed, lost_rst>>
  BY DEF Accept, PollAcceptDead, PollAcceptPending, sockets, owners, loop
<1>2. /\ accepting' \in BOOLEAN /\ accept_asleep' \in BOOLEAN /\ recv_waker' \subseteq Handles
      /\ AcceptTask'
      /\ accept_asleep' => Acceptable = {}
  <2>1. CASE Accept
    BY <2>1 DEF Accept, Inv, TypeOK, AcceptTask, NoLostWakeup, owners
  <2>2. CASE PollAcceptDead
    BY <2>2 DEF PollAcceptDead, Inv, TypeOK, AcceptTask, NoLostWakeup, owners
  <2>3. CASE PollAcceptPending
    BY <1>1, <2>3, SlotsAreHandles
       DEF PollAcceptPending, Inv, TypeOK, AcceptTask, NoLostWakeup
  <2> QED BY <2>1, <2>2, <2>3
<1>3. TypeOK'
  BY <1>1, <1>2 DEF Inv, TypeOK
<1>4. OneOwner' /\ StreamTasks' /\ DropSendsRst'
  BY <1>1 DEF Inv, OneOwner, Free, StreamTasks, DropSendsRst
<1>5. NoLostWakeup'
  <2>1. Acceptable' = Acceptable
    BY <1>1 DEF Acceptable
  <2> QED BY <1>1, <1>2, <2>1 DEF Inv, NoLostWakeup
<1> QED BY <1>2, <1>3, <1>4, <1>5 DEF Inv

\* accept() hands out a slot's socket and puts a new one in its place.
LEMMA PollAcceptReadyStep ==
    ASSUME Inv, NEW new \in Handles, PollAcceptReady(new)
    PROVE  Inv'
<1>1. PICK i \in Acceptable : /\ handles' = [handles EXCEPT ![i] = new]
                              /\ streams' = streams \cup {handles[i]}
  BY DEF PollAcceptReady, SlotReplaced
<1>2. /\ new \in Free /\ ~accept_asleep
      /\ state' = [state EXCEPT ![new] = "Listen"] /\ accepting' = FALSE
      /\ UNCHANGED <<unsent, orphaned_closing, op, asleep, accept_asleep, recv_waker,
                     turn, packets_processed, lost_rst>>
  BY DEF PollAcceptReady, loop
<1>3. /\ new \notin streams /\ new \notin orphaned_closing /\ new \notin ToSet(handles)
      /\ new \notin asleep
  BY <1>2 DEF Inv, OneOwner, StreamTasks
<1>4. /\ i \in DOMAIN handles /\ handles[i] \in Handles /\ handles[i] \in ToSet(handles)
      /\ handles \in Seq(Handles) /\ IsInjective(handles)
  BY SlotsAreHandles DEF Inv, OneOwner, Acceptable, TypeOK, ToSet
<1>5. /\ handles' \in Seq(Handles) /\ IsInjective(handles')
      /\ ToSet(handles') = (ToSet(handles) \ {handles[i]}) \cup {new}
  <2>1. /\ handles' \in Seq(Handles) /\ DOMAIN handles' = DOMAIN handles
        /\ handles'[i] = new /\ \A j \in DOMAIN handles \ {i} : handles'[j] = handles[j]
    BY <1>1, <1>4
  <2> QED BY <1>3, <1>4, <2>1, Replaced
<1>6. TypeOK'
  BY <1>1, <1>2, <1>4, <1>5 DEF Inv, TypeOK, States
<1>7. OneOwner'
  <2>1. Free' = Free \ {new}
    BY <1>2 DEF Inv, TypeOK, Free
  <2>2. new \in Handles /\ ToSet(handles)' = ToSet(handles')
    BY DEF ToSet
  <2>3. IsInjective(handles)'
    BY <1>5 DEF IsInjective
  <2> QED BY <1>1, <1>2, <1>3, <1>4, <1>5, <2>1, <2>2, <2>3 DEF Inv, OneOwner
<1>8. StreamTasks' /\ DropSendsRst'
  BY <1>1, <1>2 DEF Inv, StreamTasks, DropSendsRst
<1>9. AcceptTask'
  BY <1>2 DEF AcceptTask
<1>10. NoLostWakeup'
  BY <1>2, <1>3 DEF Inv, TypeOK, NoLostWakeup
<1> QED BY <1>6, <1>7, <1>8, <1>9, <1>10 DEF Inv

\* Dropping the listener frees its handles.
LEMMA DropListenerStep == ASSUME Inv, DropListener PROVE Inv'
<1>1. /\ state' = [h \in Handles |-> IF h \in ToSet(handles) THEN "Free" ELSE state[h]]
      /\ unsent' = [h \in Handles |-> IF h \in ToSet(handles) THEN "none" ELSE unsent[h]]
      /\ recv_waker' = recv_waker \ ToSet(handles)
      /\ handles' = <<>> /\ accepting' = FALSE /\ accept_asleep' = FALSE
      /\ UNCHANGED <<streams, orphaned_closing, op, asleep, turn, packets_processed>>
      /\ lost_rst' \subseteq lost_rst \cup {"drop listener"}
  BY DEF DropListener, loop
<1>2. ToSet(<<>>) = {} /\ IsInjective(<<>>) /\ <<>> \in Seq(Handles)
  BY Empty
<1>3. TypeOK'
  BY <1>1, <1>2 DEF Inv, TypeOK
<1>4. OneOwner'
  <2>1. Free' = Free \cup ToSet(handles)
    BY <1>1, SlotsAreHandles DEF Inv, Free
  <2>2. ToSet(handles)' = {} /\ IsInjective(handles)'
    BY <1>1, <1>2 DEF ToSet, IsInjective
  <2> QED BY <1>1, <2>1, <2>2 DEF Inv, OneOwner
<1>5. StreamTasks' /\ AcceptTask' /\ DropSendsRst'
  BY <1>1 DEF Inv, StreamTasks, AcceptTask, DropSendsRst
<1>6. NoLostWakeup'
  BY <1>1 DEF Inv, TypeOK, NoLostWakeup, Dead
<1> QED BY <1>3, <1>4, <1>5, <1>6 DEF Inv

-----------------------------------------------------------------------------

\* Every step keeps the invariant.
LEMMA NextInv == Inv /\ [Next]_vars => Inv'
<1> SUFFICES ASSUME Inv, [Next]_vars PROVE Inv'
  OBVIOUS
<1>1. CASE Reactor
  BY <1>1, EndRoundStep, LoopStep, IngressStep DEF Reactor
<1>2. CASE Cancelled \/ UNCHANGED vars
  BY <1>2, LoopStep
<1>3. CASE Listener
  BY <1>3, BindStep, AcceptTaskStep, PollAcceptReadyStep, DropListenerStep
     DEF Listener, PollAccept
<1>4. ASSUME NEW h \in Handles, Stream(h) PROVE Inv'
  BY <1>4, ConnectStep, AwaitStep, PollWaitConnectedStep, PollCloseStep, AbortStep,
     DropStreamStep DEF Stream
<1> QED BY <1>1, <1>2, <1>3, <1>4 DEF Next

\* The inductive invariant of the reactor holds.
LEMMA InvHolds == Spec => []Inv
  BY InitInv, NextInv, PTL DEF Spec

\* The socket set, its owners, its tasks and the round counter keep their
\* types; the counter stays within the batch size (reactor.rs).
THEOREM ReactorTypeCorrect == Spec => []TypeOK
<1>1. Inv => TypeOK
  BY DEF Inv
<1> QED BY <1>1, InvHolds, PTL

\* Every socket of the set has exactly one owner among streams, listener slots
\* and orphans, for any number of sockets and any backlog: no drop, accept or
\* cleanup removes a socket somebody else still holds (tcp.rs, reactor.rs).
THEOREM SocketsHaveOneOwner == Spec => []OneOwner
<1>1. Inv => OneOwner
  BY DEF Inv
<1> QED BY <1>1, InvHolds, PTL

\* No task of a stream or of the listener sleeps on what has already happened
\* (tcp.rs: AcceptFuture, WaitConnectedFuture, poll_close_io).
THEOREM WakeupsAreNotLost == Spec => []NoLostWakeup
<1>1. Inv => NoLostWakeup
  BY DEF Inv
<1> QED BY <1>1, InvHolds, PTL

\* Because poll_egress runs before cleanup_orphaned, the RST of a dropped
\* stream goes out before its socket is removed (reactor.rs).
THEOREM DroppedStreamsSendRst == Spec => []DropSendsRst
<1>1. Inv => DropSendsRst
  BY DEF Inv
<1> QED BY <1>1, InvHolds, PTL

-----------------------------------------------------------------------------
(* What is left to wait for.                                               *)

\* The states a socket can be in, by who holds it.  A stream is never
\* listening, a slot has never been closed, an orphan is on its way out.
StreamStates == {"SynSent", "Established", "CloseWait"} \cup ShuttingDown \cup Dead
SlotStates   == {"Listen", "SynReceived", "Established", "CloseWait", "Closed"}
OrphanStates == ShuttingDown \cup Dead

OwnerFitsState ==
    /\ \A h \in streams : state[h] \in StreamStates
    /\ \A h \in ToSet(handles) : state[h] \in SlotStates
    /\ \A h \in orphaned_closing : state[h] \in OrphanStates

\* The segments a socket in state s may still have to emit.
MayOwe(s) ==
    {"none"} \cup (IF s \in {"SynSent", "SynReceived"} THEN {"syn"} ELSE {})
             \cup (IF s \in {"FinWait1", "Closing", "LastAck"} THEN {"fin"} ELSE {})
             \cup (IF s = "Closed" THEN {"rst"} ELSE {})

OwesWhatStateSays == \A h \in Handles : unsent[h] \in MayOwe(state[h])

\* A close() that sleeps has begun the shutdown: our FIN is queued or out.
SleepingCloseHasBegun == \A h \in asleep : op[h] = "close" => state[h] \in ShuttingDown

\* While tasks run, a dead orphan is one that was aborted since the last
\* cleanup_orphaned, with its RST still to be sent.
DeadOrphansAreNew ==
    turn # "ingress" =>
        \A h \in orphaned_closing : state[h] \in Dead => state[h] = "Closed" /\ unsent[h] = "rst"

\* What is not dead or removed moves on by its own segment and the peer's: the
\* socket never sits in a state in which neither the NIC nor the peer has the
\* next move.
ClosingMovesOn ==
    /\ OwnerFitsState
    /\ OwesWhatStateSays
    /\ SleepingCloseHasBegun
    /\ DeadOrphansAreNew

\* A packet takes a socket to a state its holder may see it in.
LEMMA PacketMoves ==
    ASSUME Inv, ClosingMovesOn, NEW h \in Handles, NEW from, NEW to, NEW owes,
           Packet(h, from, to, owes), owes \in MayOwe(to),
           state[h] \in StreamStates => to \in StreamStates,
           state[h] \in SlotStates => to \in SlotStates,
           state[h] \in OrphanStates => to \in OrphanStates
    PROVE  ClosingMovesOn'
<1>1. /\ state' = [state EXCEPT ![h] = to] /\ unsent' = [unsent EXCEPT ![h] = owes]
      /\ asleep' = asleep \ {h} /\ turn' = "ingress"
      /\ UNCHANGED <<streams, handles, orphaned_closing, op>>
  BY DEF Packet, owners
<1>2. /\ state'[h] = to /\ unsent'[h] = owes
      /\ \A g \in Handles : g # h => state'[g] = state[g] /\ unsent'[g] = unsent[g]
  BY <1>1 DEF Inv, TypeOK
<1>3. /\ streams \subseteq Handles /\ ToSet(handles) \subseteq Handles
      /\ orphaned_closing \subseteq Handles /\ asleep \subseteq Handles
  BY SlotsAreHandles DEF Inv, TypeOK
<1>4. OwnerFitsState'
  <2>1. \A g \in streams : state'[g] \in StreamStates
    BY <1>2, <1>3 DEF ClosingMovesOn, OwnerFitsState
  <2>2. \A g \in ToSet(handles) : state'[g] \in SlotStates
    BY <1>2, <1>3 DEF ClosingMovesOn, OwnerFitsState
  <2>3. \A g \in orphaned_closing : state'[g] \in OrphanStates
    BY <1>2, <1>3 DEF ClosingMovesOn, OwnerFitsState
  <2> QED BY <1>1, <2>1, <2>2, <2>3 DEF OwnerFitsState
<1>5. OwesWhatStateSays'
  BY <1>2 DEF ClosingMovesOn, OwesWhatStateSays
<1>6. SleepingCloseHasBegun'
  BY <1>1, <1>2, <1>3 DEF ClosingMovesOn, SleepingCloseHasBegun
<1>7. DeadOrphansAreNew'
  BY <1>1 DEF DeadOrphansAreNew
<1> QED BY <1>4, <1>5, <1>6, <1>7 DEF ClosingMovesOn

\* Every segment of the peer.
LEMMA IngressMoves ==
    ASSUME Inv, ClosingMovesOn, NEW h \in Handles, Ingress(h)
    PROVE  ClosingMovesOn'
<1>1. unsent[h] \in MayOwe(state[h])
  BY DEF ClosingMovesOn, OwesWhatStateSays
<1>2. CASE RecvSyn(h)
  <2>1. Packet(h, {"Listen"}, "SynReceived", "syn") /\ state[h] = "Listen"
    BY <1>2 DEF RecvSyn, Packet
  <2>2. /\ state[h] \notin StreamStates /\ state[h] \notin OrphanStates
        /\ "SynReceived" \in SlotStates /\ "syn" \in MayOwe("SynReceived")
    BY <2>1 DEF StreamStates, SlotStates, OrphanStates, ShuttingDown, Dead, MayOwe
  <2> QED BY <2>1, <2>2, PacketMoves
<1>3. CASE RecvHandshake(h)
  <2>1. /\ Packet(h, {"SynSent", "SynReceived"}, "Established", "none")
        /\ state[h] \in {"SynSent", "SynReceived"}
    BY <1>3 DEF RecvHandshake, Packet
  <2>2. /\ state[h] \notin OrphanStates /\ "none" \in MayOwe("Established")
        /\ "Established" \in SlotStates /\ "Established" \in StreamStates
    BY <2>1 DEF StreamStates, SlotStates, OrphanStates, ShuttingDown, Dead, MayOwe
  <2> QED BY <2>1, <2>2, PacketMoves
<1>4. CASE RecvFin(h)
  <2>1. CASE Packet(h, {"Established"}, "CloseWait", "none")
    <3>1. state[h] = "Established"
      BY <2>1 DEF Packet
    <3>2. /\ state[h] \notin OrphanStates /\ "none" \in MayOwe("CloseWait")
          /\ "CloseWait" \in SlotStates /\ "CloseWait" \in StreamStates
      BY <3>1 DEF StreamStates, SlotStates, OrphanStates, ShuttingDown, Dead, MayOwe
    <3> QED BY <2>1, <3>2, PacketMoves
  <2>2. CASE Packet(h, {"FinWait1"}, "Closing", unsent[h])
    <3>1. state[h] = "FinWait1"
      BY <2>2 DEF Packet
    <3>2. /\ unsent[h] \in MayOwe("Closing") /\ state[h] \notin SlotStates
          /\ "Closing" \in OrphanStates /\ "Closing" \in StreamStates
      BY <1>1, <3>1 DEF StreamStates, SlotStates, OrphanStates, ShuttingDown, Dead, MayOwe
    <3> QED BY <2>2, <3>2, PacketMoves
  <2>3. CASE Packet(h, {"FinWait2"}, "TimeWait", "none")
    <3>1. state[h] = "FinWait2"
      BY <2>3 DEF Packet
    <3>2. /\ "none" \in MayOwe("TimeWait") /\ state[h] \notin SlotStates
          /\ "TimeWait" \in OrphanStates /\ "TimeWait" \in StreamStates
      BY <3>1 DEF StreamStates, SlotStates, OrphanStates, ShuttingDown, Dead, MayOwe
    <3> QED BY <2>3, <3>2, PacketMoves
  <2> QED BY <1>4, <2>1, <2>2, <2>3 DEF RecvFin
<1>5. CASE RecvAckOfFin(h)
  <2>1. PICK to \in {"FinWait2", "TimeWait", "Closed"} :
          Packet(h, {"FinWait1", "Closing", "LastAck"}, to, "none")
    BY <1>5 DEF RecvAckOfFin, Packet
  <2>2. state[h] \in {"FinWait1", "Closing", "LastAck"}
    BY <2>1 DEF Packet
  <2>3. /\ "none" \in MayOwe(to) /\ state[h] \notin SlotStates
        /\ to \in OrphanStates /\ to \in StreamStates
    BY <2>2 DEF StreamStates, SlotStates, OrphanStates, ShuttingDown, Dead, MayOwe
  <2> QED BY <2>1, <2>3, PacketMoves
<1>6. CASE RecvRst(h)
  <2>1. CASE Packet(h, {"SynReceived"}, "Listen", "none")
    <3>1. state[h] = "SynReceived"
      BY <2>1 DEF Packet
    <3>2. /\ state[h] \notin StreamStates /\ state[h] \notin OrphanStates
          /\ "Listen" \in SlotStates /\ "none" \in MayOwe("Listen")
      BY <3>1 DEF StreamStates, SlotStates, OrphanStates, ShuttingDown, Dead, MayOwe
    <3> QED BY <2>1, <3>2, PacketMoves
  <2>2. CASE Packet(h, {"SynSent", "Established", "CloseWait"} \cup ShuttingDown, "Closed", "none")
    <3>1. /\ "none" \in MayOwe("Closed")
          /\ "Closed" \in OrphanStates /\ "Closed" \in StreamStates /\ "Closed" \in SlotStates
      BY DEF StreamStates, SlotStates, OrphanStates, ShuttingDown, Dead, MayOwe
    <3> QED BY <2>2, <3>1, PacketMoves
  <2> QED BY <1>6, <2>1, <2>2 DEF RecvRst
<1> QED BY <1>2, <1>3, <1>4, <1>5, <1>6 DEF Ingress

\* cleanup_orphaned removes every dead orphan, and with it what it owed.
LEMMA EndRoundMoves == ASSUME Inv, ClosingMovesOn, EndRound PROVE ClosingMovesOn'
<1> DEFINE removed == {h \in orphaned_closing : Removable(h)}
<1>1. PICK sent \in SUBSET Pending :
        /\ unsent' = [h \in Handles |-> IF h \in removed THEN "none" ELSE AfterEgress(sent)[h]]
        /\ state' = [h \in Handles |-> IF h \in removed THEN "Free" ELSE state[h]]
        /\ orphaned_closing' = orphaned_closing \ removed
  BY Zenon DEF EndRound
<1>2. UNCHANGED <<streams, handles, op, asleep>>
  BY DEF EndRound, tasks
<1>3. /\ streams \subseteq Handles /\ ToSet(handles) \subseteq Handles
      /\ orphaned_closing \subseteq Handles /\ asleep \subseteq streams
      /\ \A h \in removed : h \notin streams /\ h \notin ToSet(handles)
  BY SlotsAreHandles DEF Inv, TypeOK, OneOwner, StreamTasks
<1>4. \A h \in Handles : /\ h \notin removed => /\ state'[h] = state[h]
                                                /\ unsent'[h] \in {unsent[h], "none"}
                         /\ h \in removed => unsent'[h] = "none"
  BY <1>1 DEF AfterEgress
<1>5. OwnerFitsState'
  <2>1. /\ \A h \in streams : state'[h] \in StreamStates
        /\ \A h \in ToSet(handles) : state'[h] \in SlotStates
    BY <1>3, <1>4 DEF ClosingMovesOn, OwnerFitsState
  <2>2. \A h \in orphaned_closing' : state'[h] \in OrphanStates
    BY <1>1, <1>3, <1>4 DEF ClosingMovesOn, OwnerFitsState
  <2> QED BY <1>2, <2>1, <2>2 DEF OwnerFitsState
<1>6. OwesWhatStateSays'
  BY <1>4 DEF ClosingMovesOn, OwesWhatStateSays, MayOwe
<1>7. SleepingCloseHasBegun'
  BY <1>2, <1>3, <1>4 DEF ClosingMovesOn, SleepingCloseHasBegun
<1>8. DeadOrphansAreNew'
  <2>1. \A h \in orphaned_closing' : h \in Handles /\ h \notin removed /\ ~Removable(h)
    BY <1>1, <1>3
  <2> QED BY <1>4, <2>1 DEF DeadOrphansAreNew, Removable
<1> QED BY <1>5, <1>6, <1>7, <1>8 DEF ClosingMovesOn

\* Steps of the loop and of the tasks that touch no socket and no holder.
LEMMA IdleMoves ==
    ASSUME Inv, ClosingMovesOn,
           UNCHANGED <<state, unsent, streams, handles, orphaned_closing>>,
           turn' # "ingress" => turn # "ingress",
           \A h \in asleep' : op'[h] = "close" => state[h] \in ShuttingDown
    PROVE  ClosingMovesOn'
  BY DEF ClosingMovesOn, OwnerFitsState, OwesWhatStateSays, SleepingCloseHasBegun,
         DeadOrphansAreNew

\* A stream's task moves its own socket.
LEMMA StreamMoves ==
    ASSUME Inv, ClosingMovesOn, NEW h \in Handles, NEW s, NEW owes, h \in streams,
           state' = [state EXCEPT ![h] = s], unsent' = [unsent EXCEPT ![h] = owes],
           s \in StreamStates, owes \in MayOwe(s),
           UNCHANGED <<streams, handles, orphaned_closing, turn>>,
           \A g \in asleep' : g = h \/ (g \in asleep /\ op'[g] = op[g]),
           h \in asleep' /\ op'[h] = "close" => s \in ShuttingDown
    PROVE  ClosingMovesOn'
<1>1. /\ state'[h] = s /\ unsent'[h] = owes
      /\ \A g \in Handles : g # h => state'[g] = state[g] /\ unsent'[g] = unsent[g]
  BY DEF Inv, TypeOK
<1>2. /\ streams \subseteq Handles /\ ToSet(handles) \subseteq Handles
      /\ orphaned_closing \subseteq Handles /\ asleep \subseteq Handles
      /\ h \notin ToSet(handles) /\ h \notin orphaned_closing
  BY SlotsAreHandles, StreamIsOpen DEF Inv, TypeOK
<1>3. OwnerFitsState'
  <2>1. \A g \in streams : state'[g] \in StreamStates
    BY <1>1, <1>2 DEF ClosingMovesOn, OwnerFitsState
  <2>2. \A g \in ToSet(handles) : state'[g] \in SlotStates
    BY <1>1, <1>2 DEF ClosingMovesOn, OwnerFitsState
  <2>3. \A g \in orphaned_closing : state'[g] \in OrphanStates
    BY <1>1, <1>2 DEF ClosingMovesOn, OwnerFitsState
  <2> QED BY <2>1, <2>2, <2>3 DEF OwnerFitsState
<1>4. OwesWhatStateSays'
  BY <1>1 DEF ClosingMovesOn, OwesWhatStateSays
<1>5. SleepingCloseHasBegun'
  BY <1>1, <1>2 DEF ClosingMovesOn, SleepingCloseHasBegun
<1>6. DeadOrphansAreNew'
  BY <1>1, <1>2 DEF ClosingMovesOn, DeadOrphansAreNew
<1> QED BY <1>3, <1>4, <1>5, <1>6 DEF ClosingMovesOn

\* The futures of a stream.
LEMMA FutureMoves ==
    ASSUME Inv, ClosingMovesOn, NEW h \in Handles,
           PollWaitConnected(h) \/ PollClose(h) \/ Abort(h)
    PROVE  ClosingMovesOn'
<1>0. op \in [Handles -> {"none", "wait_connected", "close"}] /\ asleep \subseteq Handles
  BY DEF Inv, TypeOK
<1>1. CASE PollWaitConnected(h)
  <2>1. /\ op[h] = "wait_connected" /\ (Return(h) \/ Sleep(h))
        /\ UNCHANGED <<state, unsent, streams, handles, orphaned_closing, turn>>
    BY <1>1 DEF PollWaitConnected, Polled, sockets, owners, loop
  <2>2. \A g \in asleep' : op'[g] = "close" => g \in asleep /\ op[g] = "close"
    BY <1>0, <2>1 DEF Return, Sleep
  <2> QED BY <2>1, <2>2, IdleMoves DEF ClosingMovesOn, SleepingCloseHasBegun
<1>2. CASE PollClose(h)
  <2>1. op[h] = "close" /\ h \notin asleep /\ UNCHANGED <<streams, handles, orphaned_closing, turn>>
    BY <1>2 DEF PollClose, Polled, owners, loop
  <2>2. h \in streams /\ state[h] \in StreamStates
    BY <2>1, StreamIsOpen DEF ClosingMovesOn, OwnerFitsState
  <2>3. CASE UNCHANGED sockets /\ (Return(h) \/ (Sleep(h) /\ state[h] \in ShuttingDown))
    <3>1. \A g \in asleep' : op'[g] = "close" =>
             (g \in asleep /\ op[g] = "close") \/ state[g] \in ShuttingDown
      BY <1>0, <2>1, <2>3 DEF Return, Sleep
    <3> QED BY <2>1, <2>3, <3>1, IdleMoves DEF sockets, ClosingMovesOn, SleepingCloseHasBegun
  <2>4. CASE /\ state[h] \notin Dead \cup ShuttingDown
             /\ state' = [state EXCEPT ![h] = AfterClose(h)[1]]
             /\ unsent' = [unsent EXCEPT ![h] = AfterClose(h)[2]]
             /\ IF state'[h] \in Dead THEN Return(h) ELSE Sleep(h)
    <3>1. PICK s, owes : s = AfterClose(h)[1] /\ owes = AfterClose(h)[2]
      OBVIOUS
    <3>2. \/ s = "Closed" /\ owes = "rst"
          \/ s \in {"LastAck", "FinWait1"} /\ owes = "fin"
      BY <2>2, <2>4, <3>1 DEF AfterClose, StreamStates
    <3>3. s \in StreamStates /\ owes \in MayOwe(s) /\ (s \in ShuttingDown \/ s \in Dead)
      BY <3>2 DEF StreamStates, ShuttingDown, Dead, MayOwe
    <3>4. /\ state' = [state EXCEPT ![h] = s] /\ unsent' = [unsent EXCEPT ![h] = owes]
          /\ state'[h] = s
      BY <2>4, <3>1 DEF Inv, TypeOK
    <3>5. CASE Return(h)
      <4>1. \A g \in asleep' : g \in asleep /\ op'[g] = op[g] /\ g # h
        BY <1>0, <2>1, <3>5 DEF Return
      <4> QED BY <2>1, <2>2, <3>3, <3>4, <4>1, StreamMoves
    <3>6. CASE Sleep(h) /\ s \in ShuttingDown
      <4>1. \A g \in asleep' : g = h \/ (g \in asleep /\ op'[g] = op[g])
        BY <3>6 DEF Sleep
      <4> QED BY <2>1, <2>2, <3>3, <3>4, <3>6, <4>1, StreamMoves
    <3> QED BY <2>4, <3>3, <3>4, <3>5, <3>6
  <2> QED BY <1>2, <2>3, <2>4 DEF PollClose
<1>3. CASE Abort(h)
  <2>1. /\ h \in streams /\ op[h] = "none" /\ state' = [state EXCEPT ![h] = "Closed"]
        /\ unsent' = [unsent EXCEPT ![h] = AfterAbort(h)]
        /\ UNCHANGED <<streams, handles, orphaned_closing, turn, op, asleep>>
    BY <1>3 DEF Abort, owners, tasks, loop
  <2>2. AfterAbort(h) \in MayOwe("Closed")
    <3>1. state[h] \in StreamStates /\ unsent[h] \in MayOwe(state[h])
      BY <2>1 DEF ClosingMovesOn, OwnerFitsState, OwesWhatStateSays
    <3>2. state[h] # "Listen"
      BY <3>1 DEF StreamStates, ShuttingDown, Dead
    <3> QED BY <3>1, <3>2 DEF AfterAbort, MayOwe
  <2>3. "Closed" \in StreamStates
    BY DEF StreamStates, Dead
  <2>4. PICK owes : owes = AfterAbort(h)
    OBVIOUS
  <2> QED BY <2>1, <2>2, <2>3, <2>4, StreamMoves
<1> QED BY <1>1, <1>2, <1>3

\* connect() and await.
LEMMA ConnectMoves ==
    ASSUME Inv, ClosingMovesOn, NEW h \in Handles,
           Connect(h) \/ Await(h, "wait_connected") \/ Await(h, "close")
    PROVE  ClosingMovesOn'
<1>1. CASE Connect(h)
  <2>1. /\ h \in Free /\ state' = [state EXCEPT ![h] = "SynSent"]
        /\ unsent' = [unsent EXCEPT ![h] = "syn"] /\ streams' = streams \cup {h}
        /\ UNCHANGED <<handles, orphaned_closing, op, asleep, turn>>
    BY <1>1 DEF Connect, tasks, loop
  <2>2. /\ h \notin streams /\ h \notin orphaned_closing /\ h \notin ToSet(handles)
        /\ asleep \subseteq streams /\ streams \subseteq Handles
        /\ orphaned_closing \subseteq Handles /\ ToSet(handles) \subseteq Handles
    BY <2>1, SlotsAreHandles DEF Inv, OneOwner, StreamTasks, TypeOK
  <2>3. /\ state'[h] = "SynSent" /\ unsent'[h] = "syn"
        /\ \A g \in Handles : g # h => state'[g] = state[g] /\ unsent'[g] = unsent[g]
    BY <2>1 DEF Inv, TypeOK
  <2>4. "SynSent" \in StreamStates /\ "syn" \in MayOwe("SynSent")
    BY DEF StreamStates, MayOwe
  <2>5. OwnerFitsState'
    <3>1. \A g \in streams' : state'[g] \in StreamStates
      BY <2>1, <2>2, <2>3, <2>4 DEF ClosingMovesOn, OwnerFitsState
    <3>2. \A g \in ToSet(handles) : state'[g] \in SlotStates
      BY <2>2, <2>3 DEF ClosingMovesOn, OwnerFitsState
    <3>3. \A g \in orphaned_closing : state'[g] \in OrphanStates
      BY <2>2, <2>3 DEF ClosingMovesOn, OwnerFitsState
    <3> QED BY <2>1, <3>1, <3>2, <3>3 DEF OwnerFitsState
  <2>6. OwesWhatStateSays'
    BY <2>3, <2>4 DEF ClosingMovesOn, OwesWhatStateSays
  <2>7. SleepingCloseHasBegun' /\ DeadOrphansAreNew'
    BY <2>1, <2>2, <2>3 DEF ClosingMovesOn, SleepingCloseHasBegun, DeadOrphansAreNew
  <2> QED BY <2>5, <2>6, <2>7 DEF ClosingMovesOn
<1>2. ASSUME NEW future, Await(h, future) PROVE ClosingMovesOn'
  <2>1. /\ op' = [op EXCEPT ![h] = future] /\ op[h] = "none"
        /\ UNCHANGED <<state, unsent, streams, handles, orphaned_closing, asleep, turn>>
    BY <1>2 DEF Await, sockets, owners, loop
  <2>2. h \notin asleep /\ \A g \in asleep : op'[g] = op[g]
    BY <2>1 DEF Inv, StreamTasks, TypeOK
  <2> QED BY <2>1, <2>2, IdleMoves DEF ClosingMovesOn, SleepingCloseHasBegun
<1> QED BY <1>1, <1>2

\* A dropped stream's socket is removed, or becomes an orphan on its way out.
LEMMA DropStreamMoves ==
    ASSUME Inv, ClosingMovesOn, NEW h \in Handles, DropStream(h)
    PROVE  ClosingMovesOn'
<1>1. /\ h \in streams /\ streams' = streams \ {h} /\ turn # "ingress"
      /\ op' = [op EXCEPT ![h] = "none"] /\ asleep' = asleep \ {h}
      /\ UNCHANGED <<handles, turn>>
  BY DEF DropStream, loop, TasksRun
<1>2. /\ h \notin ToSet(handles) /\ h \notin orphaned_closing /\ state[h] \in StreamStates
      /\ unsent[h] \in MayOwe(state[h])
      /\ streams \subseteq Handles /\ ToSet(handles) \subseteq Handles
      /\ orphaned_closing \subseteq Handles /\ asleep \subseteq Handles
  BY <1>1, StreamIsOpen, SlotsAreHandles
     DEF Inv, TypeOK, ClosingMovesOn, OwnerFitsState, OwesWhatStateSays
<1>3. /\ \A g \in Handles : g # h => state'[g] = state[g] /\ unsent'[g] = unsent[g]
      /\ unsent'[h] \in MayOwe(state'[h])
      /\ \/ orphaned_closing' = orphaned_closing
         \/ /\ orphaned_closing' = orphaned_closing \cup {h}
            /\ \/ state'[h] \in ShuttingDown
               \/ state'[h] = "Closed" /\ unsent'[h] = "rst"
  <2>1. CASE /\ state' = [state EXCEPT ![h] = "Free"]
             /\ unsent' = [unsent EXCEPT ![h] = "none"]
             /\ UNCHANGED orphaned_closing
    BY <2>1 DEF Inv, TypeOK, MayOwe
  <2>2. CASE /\ state[h] \in ShuttingDown /\ UNCHANGED sockets
             /\ orphaned_closing' = orphaned_closing \cup {h}
    BY <1>2, <2>2 DEF sockets
  <2>3. CASE /\ state[h] \notin Dead \cup ShuttingDown /\ AbortActive(h)
             /\ orphaned_closing' = orphaned_closing \cup {h}
    <3>1. AfterAbort(h) = "rst"
      BY <1>2, <2>3 DEF AfterAbort, StreamStates, Dead
    <3>2. state' = [state EXCEPT ![h] = "Closed"] /\ unsent' = [unsent EXCEPT ![h] = "rst"]
      BY <2>3, <3>1 DEF AbortActive
    <3>3. "rst" \in MayOwe("Closed")
      BY DEF MayOwe
    <3>4. /\ state'[h] = "Closed" /\ unsent'[h] = "rst"
          /\ \A g \in Handles : g # h => state'[g] = state[g] /\ unsent'[g] = unsent[g]
      BY <3>2 DEF Inv, TypeOK
    <3> QED BY <2>3, <3>3, <3>4
  <2> QED BY <2>1, <2>2, <2>3 DEF DropStream
<1>4. OwnerFitsState'
  <2>1. \A g \in streams' : state'[g] \in StreamStates
    BY <1>1, <1>2, <1>3 DEF ClosingMovesOn, OwnerFitsState
  <2>2. \A g \in ToSet(handles) : state'[g] \in SlotStates
    BY <1>2, <1>3 DEF ClosingMovesOn, OwnerFitsState
  <2>3. \A g \in orphaned_closing : state'[g] \in OrphanStates
    BY <1>2, <1>3 DEF ClosingMovesOn, OwnerFitsState
  <2>4. state'[h] \in ShuttingDown \/ state'[h] = "Closed" => state'[h] \in OrphanStates
    BY DEF OrphanStates, Dead
  <2>5. \A g \in orphaned_closing' : state'[g] \in OrphanStates
    BY <1>3, <2>3, <2>4
  <2> QED BY <1>1, <2>1, <2>2, <2>5 DEF OwnerFitsState
<1>5. OwesWhatStateSays'
  BY <1>3 DEF ClosingMovesOn, OwesWhatStateSays
<1>6. SleepingCloseHasBegun'
  <2>1. \A g \in asleep' : g \in asleep /\ g # h /\ g \in Handles /\ op'[g] = op[g]
    BY <1>1, <1>2 DEF Inv, TypeOK
  <2> QED BY <1>3, <2>1 DEF ClosingMovesOn, SleepingCloseHasBegun
<1>7. DeadOrphansAreNew'
  <2>1. \A g \in orphaned_closing : state'[g] \in Dead => state'[g] = "Closed" /\ unsent'[g] = "rst"
    BY <1>1, <1>2, <1>3 DEF ClosingMovesOn, DeadOrphansAreNew
  <2>2. state'[h] \in ShuttingDown => state'[h] \notin Dead
    BY DEF ShuttingDown, Dead
  <2> QED BY <1>3, <2>1, <2>2 DEF DeadOrphansAreNew
<1> QED BY <1>4, <1>5, <1>6, <1>7 DEF ClosingMovesOn

\* A free socket owes nothing, so a new slot starts clean; a slot goes as it is.
LEMMA ListenerMoves ==
    ASSUME Inv, ClosingMovesOn, Listener
    PROVE  ClosingMovesOn'
<1>0. /\ streams \subseteq Handles /\ ToSet(handles) \subseteq Handles
      /\ orphaned_closing \subseteq Handles /\ asleep \subseteq streams
      /\ \A h \in Free : /\ h \notin streams /\ h \notin ToSet(handles)
                         /\ h \notin orphaned_closing /\ h \in Handles
      /\ \A h \in Free : unsent[h] = "none"
      /\ state \in [Handles -> States \cup {"Free"}]
      /\ unsent \in [Handles -> {"none", "syn", "fin", "rst"}]
  BY SlotsAreHandles DEF Inv, TypeOK, OneOwner, StreamTasks, Free, ClosingMovesOn,
     OwesWhatStateSays, MayOwe
<1>1. "Listen" \in SlotStates /\ "Established" \in StreamStates /\ "none" \in MayOwe("Listen")
      /\ "none" \in MayOwe("Free")
  BY DEF SlotStates, StreamStates, MayOwe
<1>2. CASE Bind
  <2>1. PICK new \in [1 .. Backlog -> Free] :
          /\ handles' = new
          /\ state' = [h \in Handles |-> IF h \in ToSet(new) THEN "Listen" ELSE state[h]]
    BY <1>2 DEF Bind
  <2>2. UNCHANGED <<unsent, streams, orphaned_closing, op, asleep, turn>>
    BY <1>2 DEF Bind, tasks, loop
  <2>3. ToSet(new) \subseteq Free /\ ToSet(handles)' = ToSet(new)
    BY <2>1, BacklogAssumption DEF ToSet
  <2>4. \A h \in Handles : state'[h] = IF h \in ToSet(new) THEN "Listen" ELSE state[h]
    BY <2>1
  <2>5. OwnerFitsState'
    BY <1>0, <1>1, <2>2, <2>3, <2>4 DEF ClosingMovesOn, OwnerFitsState
  <2>6. OwesWhatStateSays'
    BY <1>0, <1>1, <2>2, <2>3, <2>4 DEF ClosingMovesOn, OwesWhatStateSays
  <2>7. SleepingCloseHasBegun' /\ DeadOrphansAreNew'
    BY <1>0, <2>2, <2>3, <2>4 DEF ClosingMovesOn, SleepingCloseHasBegun, DeadOrphansAreNew
  <2> QED BY <2>5, <2>6, <2>7 DEF ClosingMovesOn
<1>3. CASE Accept \/ PollAcceptDead \/ PollAcceptPending
  <2>1. UNCHANGED <<state, unsent, streams, handles, orphaned_closing, op, asleep, turn>>
    BY <1>3 DEF Accept, PollAcceptDead, PollAcceptPending, sockets, owners, loop
  <2> QED BY <2>1, IdleMoves DEF ClosingMovesOn, SleepingCloseHasBegun
<1>4. ASSUME NEW new \in Handles, PollAcceptReady(new) PROVE ClosingMovesOn'
  <2>1. PICK i \in Acceptable : /\ handles' = [handles EXCEPT ![i] = new]
                                /\ streams' = streams \cup {handles[i]}
    BY <1>4 DEF PollAcceptReady, SlotReplaced
  <2>2. /\ new \in Free /\ state' = [state EXCEPT ![new] = "Listen"]
        /\ UNCHANGED <<unsent, orphaned_closing, op, asleep, turn>>
    BY <1>4 DEF PollAcceptReady, loop
  <2>3. /\ i \in DOMAIN handles /\ handles \in Seq(Handles) /\ state[handles[i]] = "Established"
        /\ handles[i] \in Handles /\ handles[i] # new
    <3>1. i \in DOMAIN handles /\ state[handles[i]] = "Established"
      BY DEF Acceptable
    <3>2. handles \in Seq(Handles) /\ handles[i] \in Handles
      BY <3>1, SlotsAreHandles DEF Inv, TypeOK
    <3>3. state[new] = "Free"
      BY <2>2 DEF Free
    <3> QED BY <3>1, <3>2, <3>3
  <2>4. \A h \in ToSet(handles)' : h = new \/ h \in ToSet(handles)
    BY <2>1, <2>3 DEF ToSet
  <2>5. /\ state'[new] = "Listen" /\ unsent[new] = "none"
        /\ \A h \in Handles : h # new => state'[h] = state[h]
    BY <1>0, <2>2
  <2>6. OwnerFitsState'
    <3>1. \A h \in streams' : state'[h] \in StreamStates
      BY <1>0, <1>1, <2>1, <2>2, <2>3, <2>5 DEF ClosingMovesOn, OwnerFitsState
    <3>2. \A h \in ToSet(handles)' : state'[h] \in SlotStates
      BY <1>0, <1>1, <2>2, <2>4, <2>5 DEF ClosingMovesOn, OwnerFitsState
    <3>3. \A h \in orphaned_closing' : state'[h] \in OrphanStates
      BY <1>0, <2>2, <2>5 DEF ClosingMovesOn, OwnerFitsState
    <3> QED BY <3>1, <3>2, <3>3 DEF OwnerFitsState
  <2>7. OwesWhatStateSays'
    BY <1>1, <2>2, <2>5 DEF ClosingMovesOn, OwesWhatStateSays
  <2>8. SleepingCloseHasBegun' /\ DeadOrphansAreNew'
    BY <1>0, <2>2, <2>5 DEF ClosingMovesOn, SleepingCloseHasBegun, DeadOrphansAreNew
  <2> QED BY <2>6, <2>7, <2>8 DEF ClosingMovesOn
<1>5. CASE DropListener
  <2>1. /\ state' = [h \in Handles |-> IF h \in ToSet(handles) THEN "Free" ELSE state[h]]
        /\ unsent' = [h \in Handles |-> IF h \in ToSet(handles) THEN "none" ELSE unsent[h]]
        /\ handles' = <<>>
        /\ UNCHANGED <<streams, orphaned_closing, op, asleep, turn>>
    BY <1>5 DEF DropListener, loop
  <2>2. \A h \in streams \cup orphaned_closing : state'[h] = state[h] /\ unsent'[h] = unsent[h]
    BY <1>0, <2>1 DEF Inv, OneOwner
  <2>3. ToSet(handles)' = {}
    BY <2>1, Empty DEF ToSet
  <2>4. OwnerFitsState'
    BY <2>1, <2>2, <2>3 DEF ClosingMovesOn, OwnerFitsState
  <2>5. OwesWhatStateSays'
    <3>1. \A h \in Handles : \/ state'[h] = "Free" /\ unsent'[h] = "none"
                             \/ state'[h] = state[h] /\ unsent'[h] = unsent[h]
      BY <2>1
    <3> QED BY <1>1, <3>1 DEF ClosingMovesOn, OwesWhatStateSays
  <2>6. SleepingCloseHasBegun' /\ DeadOrphansAreNew'
    BY <1>0, <2>1, <2>2 DEF ClosingMovesOn, SleepingCloseHasBegun, DeadOrphansAreNew
  <2> QED BY <2>4, <2>5, <2>6 DEF ClosingMovesOn
<1> QED BY <1>2, <1>3, <1>4, <1>5 DEF Listener, PollAccept

\* A shutdown never stalls on our side of the connection, for any number of
\* sockets, any backlog and any batch size: whoever holds a socket, it is in a
\* state that holder can bring to an end; a close() that sleeps has its FIN
\* queued or out; an orphan is shutting down or dead, and a dead one is new, for
\* the cleanup at the end of every round leaves none; and no socket owes a
\* segment its state does not call for (poll_close_io, Drop for TcpStream,
\* cleanup_orphaned).  It is the safety half of CloseReturns and
\* OrphansRemoved: what is left to fairness is the NIC, the peer and the loop.
THEOREM ShutdownNeverStalls == Spec => []ClosingMovesOn
<1>1. Init => ClosingMovesOn
  <2> SUFFICES ASSUME Init PROVE ClosingMovesOn
    OBVIOUS
  <2>1. ToSet(handles) = {} /\ streams = {} /\ orphaned_closing = {} /\ asleep = {}
    BY Empty DEF Init
  <2>2. \A h \in Handles : unsent[h] = "none"
    BY DEF Init
  <2> QED BY <2>1, <2>2 DEF ClosingMovesOn, OwnerFitsState, OwesWhatStateSays,
             SleepingCloseHasBegun, DeadOrphansAreNew, MayOwe
<1>2. Inv /\ ClosingMovesOn /\ [Next]_vars => ClosingMovesOn'
  <2> SUFFICES ASSUME Inv, ClosingMovesOn, [Next]_vars PROVE ClosingMovesOn'
    OBVIOUS
  <2>1. CASE RecvOther \/ NextRound \/ Cancelled \/ UNCHANGED vars
    <3>1. /\ UNCHANGED <<state, unsent, streams, handles, orphaned_closing, op, asleep>>
          /\ turn' # "ingress" => turn # "ingress"
      BY <2>1 DEF RecvOther, NextRound, Cancelled, vars, sockets, owners, tasks, loop
    <3> QED BY <3>1, IdleMoves DEF ClosingMovesOn, SleepingCloseHasBegun
  <2>2. CASE EndRound
    BY <2>2, EndRoundMoves
  <2>3. ASSUME NEW h \in Handles, Ingress(h) PROVE ClosingMovesOn'
    BY <2>3, IngressMoves
  <2>4. CASE Listener
    BY <2>4, ListenerMoves
  <2>5. ASSUME NEW h \in Handles, Stream(h) PROVE ClosingMovesOn'
    BY <2>5, ConnectMoves, FutureMoves, DropStreamMoves DEF Stream
  <2> QED BY <2>1, <2>2, <2>3, <2>4, <2>5 DEF Next, Reactor
<1> QED BY <1>1, <1>2, InvHolds, PTL DEF Spec
=============================================================================
