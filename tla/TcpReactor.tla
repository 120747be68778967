----------------------------- MODULE TcpReactor -----------------------------
(***************************************************************************)
(* One reactor, its smoltcp socket set, and the TcpStream and TcpListener  *)
(* handles tasks hold on it.                                               *)
(*                                                                         *)
(* All of it runs on one thread: a round of Reactor::run_with_batch_size   *)
(* takes up to batch_size packets, transmits, removes finished orphans and *)
(* yields; only then do tasks run.  What a task sees of a connection is    *)
(* the state several packets may have left behind since it last looked.    *)
(***************************************************************************)
EXTENDS Naturals, Sequences, FiniteSets, SequencesExt

CONSTANTS
    Handles,       \* SocketHandles; a bound on the sockets alive at once
    Backlog,       \* TcpListener's backlog
    BatchSize      \* packets per round

ASSUME BacklogAssumption == Backlog \in Nat \ {0}
ASSUME BatchAssumption == BatchSize \in Nat \ {0}

VARIABLES
    state,             \* smoltcp's tcp::State per handle; "Free": not in the set
    unsent,            \* segment the socket still has to emit
    streams,           \* handles owned by a TcpStream
    op,                \* future the stream's task awaits
    handles,           \* TcpListener::handles; <<>>: no listener
    accepting,         \* whether a task awaits accept()
    orphaned_closing,  \* ReactorInner::orphaned_closing
    asleep,            \* streams whose task waits for a waker
    accept_asleep,     \* the accept task waits for a waker
    recv_waker,        \* sockets the accept task registered its waker with
    turn,              \* "ingress", "tasks" or "stopped"
    packets_processed, \* of this round
    lost_rst           \* history: where a socket that owed a RST was removed

sockets == <<state, unsent>>
owners == <<streams, handles, orphaned_closing>>
tasks == <<op, accepting, asleep, accept_asleep, recv_waker>>
loop == <<turn, packets_processed>>
vars == <<sockets, owners, tasks, loop, lost_rst>>

States == {"Listen", "SynSent", "SynReceived", "Established", "CloseWait",
           "FinWait1", "FinWait2", "Closing", "LastAck", "TimeWait", "Closed"}

\* Nothing of the connection is left.
Dead == {"Closed", "TimeWait"}

\* close() has been called; the FIN exchange goes on by itself.
ShuttingDown == {"FinWait1", "FinWait2", "Closing", "LastAck"}

Init ==
    /\ state = [h \in Handles |-> "Free"]
    /\ unsent = [h \in Handles |-> "none"]
    /\ streams = {}
    /\ op = [h \in Handles |-> "none"]
    /\ handles = <<>>
    /\ accepting = FALSE
    /\ orphaned_closing = {}
    /\ asleep = {}
    /\ accept_asleep = FALSE
    /\ recv_waker = {}
    /\ turn = "ingress"
    /\ packets_processed = 0
    /\ lost_rst = {}

Free == {h \in Handles : state[h] = "Free"}

-----------------------------------------------------------------------------
(* smoltcp (external): what a packet does to a socket.  Every change of     *)
(* state wakes the tasks registered with the socket.                       *)

MutantBatchOffByOne == packets_processed <= BatchSize

\* The ingress loop goes on: the batch limit is not hit.
BatchOpen == packets_processed < BatchSize

MutantCounterWraps == (packets_processed + 1) % BatchSize

Counted == packets_processed + 1

Packet(h, from, to, owes) ==
    /\ turn = "ingress"
    /\ BatchOpen
    /\ state[h] \in from
    /\ state' = [state EXCEPT ![h] = to]
    /\ unsent' = [unsent EXCEPT ![h] = owes]
    /\ asleep' = asleep \ {h}
    /\ accept_asleep' = (accept_asleep /\ h \notin recv_waker)
    /\ recv_waker' = recv_waker \ {h}
    /\ packets_processed' = Counted
    /\ UNCHANGED <<owners, op, accepting, turn, lost_rst>>

\* A frame that changes the state of no socket still counts.
RecvOther ==
    /\ turn = "ingress"
    /\ BatchOpen
    /\ packets_processed' = Counted
    /\ UNCHANGED <<sockets, owners, tasks, turn, lost_rst>>

RecvSyn(h) == Packet(h, {"Listen"}, "SynReceived", "syn")

\* The peer answers what was sent: SYN-ACK or the ACK of ours.
RecvHandshake(h) ==
    unsent[h] = "none" /\ Packet(h, {"SynSent", "SynReceived"}, "Established", "none")

RecvFin(h) ==
    \/ Packet(h, {"Established"}, "CloseWait", "none")
    \/ Packet(h, {"FinWait1"}, "Closing", unsent[h])
    \/ Packet(h, {"FinWait2"}, "TimeWait", "none")

RecvAckOfFin(h) ==
    /\ unsent[h] = "none"
    /\ \/ Packet(h, {"FinWait1"}, "FinWait2", "none")
       \/ Packet(h, {"Closing"}, "TimeWait", "none")
       \/ Packet(h, {"LastAck"}, "Closed", "none")

RecvRst(h) ==
    \/ unsent[h] = "none" /\ Packet(h, {"SynReceived"}, "Listen", "none")
    \/ unsent[h] # "syn" /\ Packet(h, {"SynSent", "Established", "CloseWait"} \cup ShuttingDown,
                                   "Closed", "none")

Ingress(h) ==
    RecvSyn(h) \/ RecvHandshake(h) \/ RecvFin(h) \/ RecvAckOfFin(h) \/ RecvRst(h)

\* tcp::Socket::abort: Closed at once; the RST is for poll_egress to send.
AfterAbort(h) ==
    IF state[h] \in {"Listen", "Closed"} THEN unsent[h] ELSE "rst"

\* tcp::Socket::close
AfterClose(h) ==
    CASE state[h] = "SynSent" -> <<"Closed", "rst">>
      [] state[h] = "Listen" -> <<"Closed", "none">>
      [] state[h] = "CloseWait" -> <<"LastAck", "fin">>
      [] OTHER -> <<"FinWait1", "fin">>

-----------------------------------------------------------------------------
(* Reactor::run_with_batch_size                                            *)

\* The sockets that owe the wire a segment; poll_egress gets it out for those
\* it finds a TX token for.
Pending == {h \in Handles : unsent[h] # "none"}

MutantNoEgressBeforeCleanup(sent) == unsent

\* What the sockets still owe the wire when cleanup_orphaned looks at them.
AfterEgress(sent) == [h \in Handles |-> IF h \in sent THEN "none" ELSE unsent[h]]

MutantTimeWaitKept(h) == state[h] = "Closed"

\* cleanup_orphaned removes the orphans nothing is left of.
Removable(h) == state[h] \in Dead

\* poll_ingress_single returned None or the batch limit is hit: poll_egress,
\* then cleanup_orphaned, then yield.
EndRound ==
    /\ turn = "ingress"
    /\ \E sent \in SUBSET Pending :
        LET owed == AfterEgress(sent)
            removed == {h \in orphaned_closing : Removable(h)}
        IN  /\ unsent' = [h \in Handles |-> IF h \in removed THEN "none" ELSE owed[h]]
            /\ state' = [h \in Handles |-> IF h \in removed THEN "Free" ELSE state[h]]
            /\ orphaned_closing' = orphaned_closing \ removed
            /\ lost_rst' = lost_rst \cup
                   {IF sent = Pending THEN "cleanup_orphaned" ELSE "no TX token" :
                        h \in {r \in removed : owed[r] = "rst"}}
    /\ turn' = "tasks"
    /\ packets_processed' = 0
    /\ UNCHANGED <<streams, handles, tasks>>

\* Slots whose connection accept() may take: the first Established one.
Acceptable == {i \in DOMAIN handles : state[handles[i]] = "Established"}

\* The executor (external) keeps a FIFO run queue: a task woken during the
\* round, or one that has just started to await, is polled before the reactor.
RunQueueEmpty ==
    /\ \A h \in Handles : op[h] # "none" => h \in asleep
    /\ accepting => accept_asleep \/ (Acceptable # {} /\ Free = {})

\* The yield returns; the loop looks at the cancel flag.
NextRound ==
    /\ turn = "tasks"
    /\ RunQueueEmpty
    /\ turn' = "ingress"
    /\ UNCHANGED <<sockets, owners, tasks, packets_processed, lost_rst>>

Cancelled ==
    /\ turn = "tasks"
    /\ RunQueueEmpty
    /\ turn' = "stopped"
    /\ UNCHANGED <<sockets, owners, tasks, packets_processed, lost_rst>>

-----------------------------------------------------------------------------
(* Tasks run between two rounds (or after the reactor has stopped).        *)

TasksRun == turn # "ingress"

\* TcpStream::connect
Connect(h) ==
    /\ TasksRun
    /\ h \in Free
    /\ state' = [state EXCEPT ![h] = "SynSent"]
    /\ unsent' = [unsent EXCEPT ![h] = "syn"]
    /\ streams' = streams \cup {h}
    /\ UNCHANGED <<handles, orphaned_closing, tasks, loop, lost_rst>>

\* A task starts to await wait_connected() or close().
Await(h, future) ==
    /\ TasksRun
    /\ h \in streams
    /\ op[h] = "none"
    /\ op' = [op EXCEPT ![h] = future]
    /\ UNCHANGED <<sockets, owners, accepting, asleep, accept_asleep, recv_waker,
                   loop, lost_rst>>

\* The await returns, or the task sleeps until the send waker fires.
Return(h) == op' = [op EXCEPT ![h] = "none"] /\ UNCHANGED asleep
Sleep(h) == asleep' = asleep \cup {h} /\ UNCHANGED op

Polled(h, future) == TasksRun /\ op[h] = future /\ h \notin asleep

\* WaitConnectedFuture::poll: only Established succeeds, only a dead socket
\* fails, everything else waits on.
PollWaitConnected(h) ==
    /\ Polled(h, "wait_connected")
    /\ IF state[h] \in {"Established"} \cup Dead THEN Return(h) ELSE Sleep(h)
    /\ UNCHANGED <<sockets, owners, accepting, accept_asleep, recv_waker, loop, lost_rst>>

MutantSleepWithoutClosing(h) ==
    /\ Polled(h, "close")
    /\ IF state[h] \in Dead THEN Return(h) ELSE Sleep(h)
    /\ UNCHANGED <<sockets, owners, accepting, accept_asleep, recv_waker, loop, lost_rst>>

\* poll_close_io: close() unless that has happened, look again, wait.
PollClose(h) ==
    /\ Polled(h, "close")
    /\ \/ /\ state[h] \in Dead
          /\ Return(h)
          /\ UNCHANGED sockets
       \/ /\ state[h] \in ShuttingDown
          /\ Sleep(h)
          /\ UNCHANGED sockets
       \/ /\ state[h] \notin Dead \cup ShuttingDown
          /\ state' = [state EXCEPT ![h] = AfterClose(h)[1]]
          /\ unsent' = [unsent EXCEPT ![h] = AfterClose(h)[2]]
          /\ IF state'[h] \in Dead THEN Return(h) ELSE Sleep(h)
    /\ UNCHANGED <<owners, accepting, accept_asleep, recv_waker, loop, lost_rst>>

\* TcpStream::abort
Abort(h) ==
    /\ TasksRun
    /\ h \in streams
    /\ op[h] = "none"
    /\ state' = [state EXCEPT ![h] = "Closed"]
    /\ unsent' = [unsent EXCEPT ![h] = AfterAbort(h)]
    /\ UNCHANGED <<owners, tasks, loop, lost_rst>>

\* A stream dropped while it is still active is aborted first.
AbortActive(h) ==
    /\ state' = [state EXCEPT ![h] = "Closed"]
    /\ unsent' = [unsent EXCEPT ![h] = AfterAbort(h)]

\* Drop for TcpStream, in a task that is done with it or is cancelled.
DropStream(h) ==
    /\ TasksRun
    /\ h \in streams
    /\ streams' = streams \ {h}
    /\ op' = [op EXCEPT ![h] = "none"]
    /\ asleep' = asleep \ {h}
    /\ \/ /\ state[h] \in Dead
          /\ state' = [state EXCEPT ![h] = "Free"]
          /\ unsent' = [unsent EXCEPT ![h] = "none"]
          /\ recv_waker' = recv_waker \ {h}
          /\ lost_rst' = lost_rst \cup (IF unsent[h] = "rst" /\ turn = "tasks" THEN {"drop"} ELSE {})
          /\ UNCHANGED orphaned_closing
       \/ /\ state[h] \in ShuttingDown
          /\ orphaned_closing' = orphaned_closing \cup {h}
          /\ UNCHANGED <<sockets, recv_waker, lost_rst>>
       \/ /\ state[h] \notin Dead \cup ShuttingDown
          /\ AbortActive(h)
          /\ orphaned_closing' = orphaned_closing \cup {h}
          /\ UNCHANGED <<recv_waker, lost_rst>>
    /\ UNCHANGED <<handles, accepting, accept_asleep, loop>>

\* TcpListener::bind_with_backlog
Bind ==
    /\ TasksRun
    /\ handles = <<>>
    /\ \E new \in [1 .. Backlog -> Free] :
        /\ IsInjective(new)
        /\ handles' = new
        /\ state' = [h \in Handles |-> IF h \in ToSet(new) THEN "Listen" ELSE state[h]]
    /\ UNCHANGED <<unsent, streams, orphaned_closing, tasks, loop, lost_rst>>

\* TcpListener::accept: a task creates the future.
Accept ==
    /\ TasksRun
    /\ handles # <<>>
    /\ ~accepting
    /\ accepting' = TRUE
    /\ UNCHANGED <<sockets, owners, op, asleep, accept_asleep, recv_waker, loop, lost_rst>>

MutantSlotNotReplaced(i, new) == handles

SlotReplaced(i, new) == [handles EXCEPT ![i] = new]

\* AcceptFuture::poll finds a connection: a new listening socket takes the
\* slot, the connected one becomes a TcpStream.
PollAcceptReady(new) ==
    /\ TasksRun /\ accepting /\ ~accept_asleep
    /\ new \in Free
    /\ \E i \in Acceptable :
        /\ \A j \in Acceptable : i <= j
        /\ handles' = SlotReplaced(i, new)
        /\ streams' = streams \cup {handles[i]}
    /\ state' = [state EXCEPT ![new] = "Listen"]
    /\ accepting' = FALSE
    /\ UNCHANGED <<unsent, orphaned_closing, op, asleep, accept_asleep, recv_waker,
                   loop, lost_rst>>

\* It finds none.  When every slot is dead it returns Err(Unaddressable).
PollAcceptDead ==
    /\ TasksRun /\ accepting /\ ~accept_asleep
    /\ Acceptable = {}
    /\ \A i \in DOMAIN handles : state[handles[i]] \in Dead
    /\ accepting' = FALSE
    /\ UNCHANGED <<sockets, owners, op, asleep, accept_asleep, recv_waker, loop, lost_rst>>

MutantRegisterFirstOnly ==
    /\ TasksRun /\ accepting /\ ~accept_asleep
    /\ Acceptable = {}
    /\ \E i \in DOMAIN handles : state[handles[i]] \notin Dead
    /\ accept_asleep' = TRUE
    /\ recv_waker' = recv_waker \cup {handles[1]}
    /\ UNCHANGED <<sockets, owners, op, accepting, asleep, loop, lost_rst>>

\* Otherwise it registers its waker with every slot and sleeps.
PollAcceptPending ==
    /\ TasksRun /\ accepting /\ ~accept_asleep
    /\ Acceptable = {}
    /\ \E i \in DOMAIN handles : state[handles[i]] \notin Dead
    /\ accept_asleep' = TRUE
    /\ recv_waker' = recv_waker \cup ToSet(handles)
    /\ UNCHANGED <<sockets, owners, op, accepting, asleep, loop, lost_rst>>

PollAccept == PollAcceptDead \/ PollAcceptPending \/ \E h \in Handles : PollAcceptReady(h)

\* Drop for TcpListener: every slot is aborted and removed at once.
DropListener ==
    /\ TasksRun
    /\ handles # <<>>
    /\ state' = [h \in Handles |-> IF h \in ToSet(handles) THEN "Free" ELSE state[h]]
    /\ unsent' = [h \in Handles |-> IF h \in ToSet(handles) THEN "none" ELSE unsent[h]]
    /\ lost_rst' = lost_rst \cup
           {"drop listener" : h \in {s \in ToSet(handles) : AfterAbort(s) = "rst"}}
    /\ recv_waker' = recv_waker \ ToSet(handles)
    /\ handles' = <<>>
    /\ accepting' = FALSE
    /\ accept_asleep' = FALSE
    /\ UNCHANGED <<streams, orphaned_closing, op, asleep, loop>>

-----------------------------------------------------------------------------

Reactor == EndRound \/ NextRound \/ RecvOther \/ \E h \in Handles : Ingress(h)

Stream(h) ==
    \/ Connect(h)
    \/ Await(h, "wait_connected")
    \/ PollWaitConnected(h)
    \/ Await(h, "close")
    \/ PollClose(h)
    \/ Abort(h)
    \/ DropStream(h)

Listener == Bind \/ Accept \/ PollAccept \/ DropListener

Next == Reactor \/ Cancelled \/ Listener \/ \E h \in Handles : Stream(h)

Spec == Init /\ [][Next]_vars

\* Every task yields, so the run queue comes round to the reactor again.
TasksYield == []<>(turn # "tasks")

\* The executor keeps polling the tasks it has woken, and the reactor.
FairSpec ==
    /\ Spec
    /\ TasksYield
    /\ WF_vars(Reactor)
    /\ WF_vars(PollAccept)
    /\ \A h \in Handles : WF_vars(PollWaitConnected(h)) /\ WF_vars(PollClose(h))

\* A peer that follows TCP completes a shutdown we have begun: it acknowledges
\* our FIN and sends its own.  Its packets come only during a round.
PeerCompletes(h) == state[h] \in ShuttingDown /\ (RecvAckOfFin(h) \/ RecvFin(h))

\* The NIC drains its TX ring: poll_egress does not fail a socket for ever.
Transmits(h) == EndRound /\ h \in Pending /\ h \notin Pending'

FairPeerSpec ==
    FairSpec /\ \A h \in Handles : SF_vars(PeerCompletes(h)) /\ SF_vars(Transmits(h))

-----------------------------------------------------------------------------

\* Types of the socket set, of its owners, of the tasks and of the loop.
TypeOK ==
    /\ state \in [Handles -> States \cup {"Free"}]
    /\ unsent \in [Handles -> {"none", "syn", "fin", "rst"}]
    /\ streams \subseteq Handles
    /\ op \in [Handles -> {"none", "wait_connected", "close"}]
    /\ handles \in Seq(Handles)
    /\ accepting \in BOOLEAN
    /\ orphaned_closing \subseteq Handles
    /\ asleep \subseteq Handles
    /\ accept_asleep \in BOOLEAN
    /\ recv_waker \subseteq Handles
    /\ turn \in {"ingress", "tasks", "stopped"}
    /\ packets_processed \in 0 .. BatchSize
    /\ lost_rst \subseteq {"cleanup_orphaned", "no TX token", "drop", "drop listener"}

\* A handle is held by one TcpStream, one slot of the listener or the orphan
\* list, never by two of them and never after its socket was removed (the
\* access would panic, or reach the socket that reuses the handle); and a
\* socket nobody holds any more has been removed.
OneOwner ==
    /\ IsInjective(handles)
    /\ streams \cap orphaned_closing = {}
    /\ streams \cap ToSet(handles) = {}
    /\ orphaned_closing \cap ToSet(handles) = {}
    /\ streams \cup orphaned_closing \cup ToSet(handles) = Handles \ Free

\* No wakeup is lost: a task sleeps only while what it waits for has not
\* happened - no slot is Established under a sleeping accept(), no socket dead
\* under a sleeping close(), none connected or dead under wait_connected().
NoLostWakeup ==
    /\ accept_asleep => Acceptable = {}
    /\ \A h \in asleep :
        /\ op[h] = "close" => state[h] \notin Dead
        /\ op[h] = "wait_connected" => state[h] \notin Dead \cup {"Established"}

\* Dropping a live stream resets the connection: cleanup_orphaned never removes
\* a socket that owes a RST, except in a round in which poll_egress found no TX
\* token for one.
DropSendsRst == "cleanup_orphaned" \notin lost_rst

\* A listener always has a slot that can take a SYN or holds a connection
\* accept() will return.
ListenerReady ==
    handles # <<>> =>
        \E i \in DOMAIN handles :
            state[handles[i]] \in {"Listen", "SynReceived", "Established"}

\* No batch of packets keeps the tasks from running for ever.
RoundsEnd == []<>(turn # "ingress")

\* With a peer that completes the shutdown, close() returns.
CloseReturns == \A h \in Handles : (op[h] = "close") ~> (op[h] # "close" \/ turn = "stopped")

\* ... and an orphan is removed from the socket set.
OrphansRemoved ==
    \A h \in Handles : (h \in orphaned_closing) ~> (h \notin orphaned_closing \/ turn = "stopped")
=============================================================================
