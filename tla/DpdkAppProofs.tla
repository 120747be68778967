--------------------------- MODULE DpdkAppProofs ----------------------------
(***************************************************************************)
(* Safety of DpdkApp::run and of Eal::init around it, for any number of    *)
(* threads and lcores, wherever the main lcore comes in their enumeration, *)
(* and for any size of the redirection table.                              *)
(***************************************************************************)
EXTENDS DpdkApp, SequenceLemmas

\* Launching closures on lcores: see the last section.
CONSTANT Enabled

VARIABLES targets, step, turn, running, jobs, results

L == INSTANCE LcoreLaunch WITH
         Lcores <- Enabled, lcores <- targets, at <- step, i <- turn,
         state <- running, job <- jobs

\* What the assumptions say of the lcores: they are the ids, each at a position.
LEMMA Constants ==
    /\ N \in Nat \ {0} /\ Lcores \in [1 .. N -> Ids]
    /\ \A l \in Ids : \E i \in 1 .. N : l = Lcores[i]
  BY AppAssumption DEF N, Ids

-----------------------------------------------------------------------------
(* The EAL.                                                                *)

\* What Eal::init and the guard hold for themselves, a panicked init for ever.
Holding == {"init", "failed", "app", "cleaned", "panicked"}

OneHolder ==
    /\ \A s, t \in Threads : pc[s] \in Holding /\ pc[t] \in Holding => s = t
    /\ EAL_INITIALIZED <=> \E t \in Threads : pc[t] \in Holding

EalType ==
    /\ EAL_INITIALIZED \in BOOLEAN /\ rte \in {"never", "up", "cleaned"}
    /\ pc \in [Threads -> {"start", "init", "failed", "error", "panicked", "app",
                           "cleaned", "done"}]

\* Before the first Eal::init nobody holds the flag.
LEMMA EalInit == Init => EalType /\ OneHolder
  BY DEF Init, EalType, OneHolder, Holding

\* run, the workers and a panic of main leave the EAL's flag alone.
LEMMA EalUnchanged ==
    ASSUME Run \/ MainPanics \/ (\E l \in Ids : Worker(l) \/ OtherEnds(l)) \/ UNCHANGED vars
    PROVE  UNCHANGED eal
<1>1. Build => UNCHANGED eal
  BY DEF Build, configure, rx_queue_setup, tx_queue_setup, configure_rss_reta,
         update_rss_hash, start, mac_addr, BuildStep
<1>2. Run => UNCHANGED eal
  BY <1>1 DEF Run, CreateMempool, Launch, SkipMain, RunMain, MainReturns, WaitAllWorkers,
              Stop, Close, DropMempool
<1> QED BY <1>2 DEF MainPanics, Worker, ServerReturns, ReactorEnds, DeviceDropped,
                    OtherEnds, vars

\* Every step of Eal::init and of its drop keeps the flag with one holder.
LEMMA EalStep ==
    ASSUME EalType, OneHolder, [Next]_vars
    PROVE  EalType' /\ OneHolder'
<1>1. ASSUME UNCHANGED eal PROVE EalType' /\ OneHolder'
  BY <1>1 DEF EalType, OneHolder, eal
<1>2. ASSUME NEW t \in Threads, Thread(t) PROVE EalType' /\ OneHolder'
  <2>1. CASE InitSwap(t)
    BY <2>1 DEF InitSwap, Goto, EalType, OneHolder, Holding
  <2>2. CASE InitPanics(t)
    BY <2>2 DEF InitPanics, Goto, EalType, OneHolder, Holding
  <2>3. CASE RteEalInit(t)
    BY <2>3 DEF RteEalInit, Goto, EalType, OneHolder, Holding
  <2>4. CASE InitResets(t)
    BY <2>4 DEF InitResets, Goto, EalType, OneHolder, Holding
  <2>5. CASE Retry(t)
    BY <2>5 DEF Retry, Goto, EalType, OneHolder, Holding
  <2>6. CASE DropEal(t)
    BY <2>6 DEF DropEal, Goto, EalType, OneHolder, Holding
  <2>7. CASE DropStores(t)
    BY <2>7 DEF DropStores, Goto, EalType, OneHolder, Holding
  <2> QED BY <1>2, <2>1, <2>2, <2>3, <2>4, <2>5, <2>6, <2>7 DEF Thread
<1> QED BY <1>1, <1>2, EalUnchanged DEF Next

\* One holder of the flag means one user of rte.
LEMMA OneUser == OneHolder => EalHasOneUser
<1> SUFFICES ASSUME OneHolder PROVE EalHasOneUser
  OBVIOUS
<1> DEFINE users == {t \in Threads : pc[t] \in {"init", "failed", "app", "cleaned"}}
<1>1. Cardinality(users) <= 1
  <2>1. CASE users = {}
    BY <2>1, FS_EmptySet
  <2>2. CASE users # {}
    <3>1. PICK t : t \in users
      BY <2>2
    <3>2. users = {t}
      BY <3>1 DEF OneHolder, Holding
    <3> QED BY <3>2, FS_Singleton
  <2> QED BY <2>1, <2>2
<1>2. EAL_INITIALIZED <=> (users # {} \/ \E t \in Threads : pc[t] = "panicked")
  BY DEF OneHolder, Holding
<1> QED BY <1>1, <1>2 DEF EalHasOneUser

-----------------------------------------------------------------------------
(* The port.                                                               *)

Fresh   == {"mempool", "build"}
Built   == {"mac", "launch", "main", "wait", "stop"}
Phases  == {"mempool", "build", "rx", "tx", "reta", "hash", "start", "mac", "launch",
            "main", "wait", "stop", "close", "drop", "returned", "panicked"}

PortType ==
    /\ phase \in Phases
    /\ rx \subseteq Queues /\ tx \subseteq Queues /\ reta_size \in RetaSizes
    /\ hash \in {"off", "driver", "RSS_KEY_40"}
    /\ dev \in {"unconfigured", "configured", "started", "stopped", "closed"}

\* The port as run has it in each phase it may be in, unless it panicked.
DevInv ==
    /\ phase \in Fresh => dev = "unconfigured"
    /\ phase \in {"rx", "tx", "reta", "hash", "start"} => dev = "configured"
    /\ phase \in Built => dev = "started"
    /\ phase = "close" => dev = "stopped"
    /\ phase \in {"drop", "returned"} => dev = "closed"
    /\ rte = "cleaned" => phase \in {"returned", "panicked"}

\* The two loops set up one queue after the other.
QueueInv ==
    /\ phase \in Fresh => rx = {}
    /\ phase = "rx" => \E k \in 0 .. N - 1 : rx = 0 .. k - 1
    /\ phase \in {"tx", "reta", "hash", "start"} \cup Built => rx = Queues
    /\ phase \in Fresh \cup {"rx"} => tx = {}
    /\ phase = "tx" => \E k \in 0 .. N - 1 : tx = 0 .. k - 1
    /\ phase \in {"reta", "hash", "start"} \cup Built => tx = Queues

\* A table is written only for several queues, and the port hashes by then.
RssInv ==
    /\ phase = "reta" => N > 1
    /\ phase \notin Fresh \cup {"panicked"} /\ WithRss => hash # "off"
    /\ reta = <<>> \/ (WithRss /\ reta = Reta(reta_size))

PortInv == PortType /\ DevInv /\ QueueInv /\ RssInv

\* At the start the port is as PortInv has it.
LEMMA PortInit == Init => PortInv
<1> SUFFICES ASSUME Init PROVE PortInv
  OBVIOUS
<1> QED BY Constants DEF Init, PortInv, PortType, DevInv, QueueInv, RssInv, Fresh, Built, Phases,
                         Queues

\* A loop's turn.
LEMMA OneMoreQueue ==
    ASSUME NEW k \in 0 .. N - 1, NEW s, s = 0 .. k - 1
    PROVE  /\ Cardinality(s) = k /\ s \cup {k} = 0 .. (k + 1) - 1
           /\ k + 1 # N => k + 1 \in 0 .. N - 1
           /\ s \cup {k} \subseteq Queues /\ (k = N - 1 => s \cup {k} = Queues)
<1>1. N \in Nat \ {0}
  BY Constants
<1>2. Cardinality(0 .. k - 1) = k
  BY <1>1, FS_Interval
<1> QED BY <1>1, <1>2 DEF Queues

\* A table without entries is no table.
LEMMA EmptyReta == Reta(0) = <<>>
<1>1. 0 .. 0 - 1 = {}
  OBVIOUS
<1> QED BY <1>1 DEF Reta

\* A step that leaves the port and the phase of run alone keeps PortInv.
LEMMA PortUnchanged ==
    ASSUME PortInv, UNCHANGED port, phase' = phase, rte' # "cleaned" \/ rte' = rte
    PROVE  PortInv'
  BY DEF PortInv, PortType, DevInv, QueueInv, RssInv, port, WithRss, Reta, Queues

\* A panic of run leaves the port where it is.
LEMMA PortPanics ==
    ASSUME PortInv, UNCHANGED port, phase' = "panicked"
    PROVE  PortInv'
  BY DEF PortInv, PortType, DevInv, QueueInv, RssInv, port, WithRss, Reta, Queues, Fresh,
         Built, Phases

\* A step of build that goes on.
LEMMA BuildGoesOn ==
    ASSUME PortInv, Build, phase' # "panicked"
    PROVE  PortInv'
<1>1. UNCHANGED <<rte, reta_size>> /\ N \in Nat \ {0}
  BY Constants DEF Build, configure, rx_queue_setup, tx_queue_setup, configure_rss_reta,
         update_rss_hash, start, mac_addr, BuildStep, Panic, eal, port
<1> USE DEF PortInv, PortType, DevInv, QueueInv, RssInv, Fresh, Built, Phases
<1>2. CASE configure
  <2>1. /\ phase = "build" /\ phase' = "rx" /\ dev' = "configured"
        /\ hash' = (IF WithRss THEN "driver" ELSE "off")
        /\ UNCHANGED <<rx, tx, reta_size, reta>>
    BY <1>2 DEF configure, BuildStep, Panic
  <2>2. QueueInv'
    <3>1. 0 \in 0 .. N - 1 /\ 0 .. 0 - 1 = {}
      BY <1>1
    <3> QED BY <2>1, <3>1 DEF Queues
  <2>3. PortType' /\ DevInv' /\ RssInv'
    BY <1>1, <2>1 DEF WithRss, Queues, Reta
  <2> QED BY <2>2, <2>3
<1>3. CASE rx_queue_setup
  <2>1. phase = "rx"
    BY <1>3 DEF rx_queue_setup, BuildStep
  <2>2. PICK k \in 0 .. N - 1 : rx = 0 .. k - 1
    BY <2>1
  <2> DEFINE s == rx \cup {k}
  <2>3. /\ Cardinality(rx) = k /\ s = 0 .. (k + 1) - 1 /\ (k + 1 # N => k + 1 \in 0 .. N - 1)
        /\ s \subseteq Queues /\ (k = N - 1 => s = Queues)
    BY <2>2, OneMoreQueue
  <2>4. /\ phase' = (IF k = N - 1 THEN "tx" ELSE "rx") /\ rx' = s
        /\ UNCHANGED <<dev, tx, reta, hash>>
    BY <1>3, <2>3 DEF rx_queue_setup, BuildStep, Panic
  <2> HIDE DEF s
  <2>5. PortType' /\ DevInv' /\ RssInv'
    BY <1>1, <2>1, <2>3, <2>4 DEF WithRss, Queues, Reta
  <2>6. QueueInv'
    <3>1. CASE k = N - 1
      <4>1. 0 \in 0 .. N - 1 /\ 0 .. 0 - 1 = {}
        BY <1>1
      <4> QED BY <2>1, <2>3, <2>4, <3>1, <4>1 DEF Queues
    <3>2. CASE k # N - 1
      <4>1. k + 1 \in 0 .. N - 1
        BY <1>1, <2>3, <3>2
      <4> QED BY <2>1, <2>3, <2>4, <3>2, <4>1
    <3> QED BY <3>1, <3>2
  <2> QED BY <2>5, <2>6
<1>4. CASE tx_queue_setup
  <2>1. phase = "tx"
    BY <1>4 DEF tx_queue_setup, BuildStep
  <2>2. PICK k \in 0 .. N - 1 : tx = 0 .. k - 1
    BY <2>1
  <2> DEFINE s == tx \cup {k}
  <2>3. /\ Cardinality(tx) = k /\ s = 0 .. (k + 1) - 1 /\ (k + 1 # N => k + 1 \in 0 .. N - 1)
        /\ s \subseteq Queues /\ (k = N - 1 => s = Queues)
    BY <2>2, OneMoreQueue
  <2>4. /\ phase' = (IF k < N - 1 THEN "tx" ELSE IF N > 1 THEN "reta" ELSE "start")
        /\ tx' = s /\ UNCHANGED <<dev, rx, reta, hash>>
    BY <1>4, <2>3 DEF tx_queue_setup, BuildStep, Panic
  <2> HIDE DEF s
  <2>5. PortType' /\ DevInv' /\ RssInv'
    BY <1>1, <2>1, <2>3, <2>4 DEF WithRss, Queues, Reta
  <2>6. QueueInv'
    <3>1. CASE k < N - 1
      <4>1. k + 1 \in 0 .. N - 1
        BY <1>1, <2>3, <3>1
      <4> QED BY <2>1, <2>3, <2>4, <3>1, <4>1 DEF Queues
    <3>2. CASE ~(k < N - 1)
      <4>1. k = N - 1
        BY <1>1, <3>2
      <4> QED BY <2>1, <2>3, <2>4, <3>2, <4>1 DEF Queues
    <3> QED BY <3>1, <3>2
  <2> QED BY <2>5, <2>6
<1>5. CASE configure_rss_reta
  <2>1. reta_size = 0 \/ WithRss
    <3>1. reta_size \in Nat
      BY AppAssumption
    <3> QED BY <1>5, <3>1 DEF configure_rss_reta, WithRss
  <2>2. reta' = <<>> \/ (WithRss /\ reta' = Reta(reta_size))
    BY <1>5, <2>1, EmptyReta DEF configure_rss_reta
  <2> QED BY <1>1, <1>5, <2>2 DEF configure_rss_reta, WithRss, Queues, Reta
<1>6. CASE update_rss_hash
  BY <1>1, <1>6 DEF update_rss_hash, WithRss, Queues, Reta
<1>7. CASE start
  BY <1>1, <1>7 DEF start, BuildStep, Panic, WithRss, Queues, Reta
<1>8. CASE mac_addr
  BY <1>1, <1>8 DEF mac_addr, BuildStep, Panic, WithRss, Queues, Reta, port
<1> QED BY <1>2, <1>3, <1>4, <1>5, <1>6, <1>7, <1>8 DEF Build

\* Every step keeps the port where the phase of run says it is.
LEMMA PortStep ==
    ASSUME PortInv, [Next]_vars
    PROVE  PortInv'
<1>1. ASSUME NEW t \in Threads, Thread(t) PROVE PortInv'
  <2>1. CASE DropEal(t)
    BY <2>1 DEF DropEal, PortInv, PortType, DevInv, QueueInv, RssInv, port, WithRss, Reta,
                Queues
  <2>2. CASE ~DropEal(t)
    <3>1. UNCHANGED port /\ phase' = phase /\ (rte' # "cleaned" \/ rte' = rte)
      BY <1>1, <2>2 DEF Thread, InitSwap, InitPanics, RteEalInit, InitResets, Retry, DropStores
    <3> QED BY <3>1, PortUnchanged
  <2> QED BY <2>1, <2>2
<1>2. CASE Build
  <2>1. CASE phase' = "panicked"
    <3>1. UNCHANGED port
      BY <1>2, <2>1 DEF Build, configure, rx_queue_setup, tx_queue_setup, configure_rss_reta,
         update_rss_hash, start, mac_addr, BuildStep, Panic, port
    <3> QED BY <2>1, <3>1, PortPanics
  <2> QED BY <1>2, <2>1, BuildGoesOn
<1>3. CASE CreateMempool \/ Launch \/ MainPanics
  <2>1. UNCHANGED <<port, rte>>
    BY <1>3 DEF CreateMempool, Launch, MainPanics, eal
  <2>2. CASE phase' \in {phase, "panicked"}
    BY <2>1, <2>2, PortUnchanged, PortPanics
  <2>3. CASE CreateMempool /\ phase' = "build"
    BY <2>1, <2>3 DEF CreateMempool, PortInv, PortType, DevInv, QueueInv, RssInv, port, WithRss,
                      Reta, Queues, Fresh, Built, Phases
  <2> QED BY <1>3, <2>2, <2>3 DEF CreateMempool, Launch, MainPanics, Panic
<1>4. CASE SkipMain \/ (\E l \in Ids : Worker(l) \/ OtherEnds(l)) \/ UNCHANGED vars
  <2>1. UNCHANGED port /\ phase' = phase /\ rte' = rte
    BY <1>4 DEF SkipMain, Worker, ServerReturns, ReactorEnds, DeviceDropped, OtherEnds, vars, eal
  <2> QED BY <2>1, PortUnchanged
<1>5. CASE RunMain \/ MainReturns \/ WaitAllWorkers \/ Stop \/ Close \/ DropMempool
  <2>1. N \in Nat \ {0} /\ UNCHANGED rte
    BY <1>5, Constants DEF RunMain, MainReturns, WaitAllWorkers, Stop, Close, DropMempool, eal
  <2> QED BY <1>5, <2>1 DEF RunMain, MainReturns, WaitAllWorkers, Stop, Close, DropMempool,
             PortInv, PortType, DevInv, QueueInv, RssInv, port, WithRss, Reta, Queues, Fresh,
             Built, Phases
<1> QED BY <1>1, <1>2, <1>3, <1>4, <1>5 DEF Next, Run

-----------------------------------------------------------------------------
(* The pool and the workers.                                               *)

\* run keeps its Arc of the pool until the port is closed.
PoolInv ==
    /\ pool \in {"none", "alive", "freed"} /\ refs \subseteq Ids \cup {"run"}
    /\ phase = "mempool" => pool = "none" /\ refs = {}
    /\ phase \notin {"mempool", "returned", "panicked"} => pool = "alive" /\ "run" \in refs

\* At the start nobody shares the pool.
LEMMA PoolInit == Init => PoolInv
  BY DEF Init, PoolInv

\* Others drop their Arcs while run has its own.
LEMMA OthersDrop ==
    ASSUME PoolInv, NEW l \in Ids, DropArcs({l}), phase' = phase
    PROVE  PoolInv'
<1>1. l # "run"
  BY AppAssumption
<1> QED BY <1>1 DEF PoolInv, DropArcs

\* Every step keeps the Arcs of the pool that PoolInv counts.
LEMMA PoolStep ==
    ASSUME PoolInv, next \in 1 .. N + 1, [Next]_vars
    PROVE  PoolInv'
<1>1. ASSUME UNCHANGED mem, phase' = phase \/ (phase # "mempool" /\ phase' # "mempool"
                                      /\ (phase \in {"returned", "panicked"} => phase' = phase))
      PROVE  PoolInv'
  BY <1>1 DEF PoolInv, mem
<1>2. CASE \E t \in Threads : Thread(t)
  <2>1. UNCHANGED mem /\ phase' = phase
    BY <1>2 DEF Thread, InitSwap, InitPanics, RteEalInit, InitResets, Retry, DropEal, DropStores
  <2> QED BY <1>1, <2>1
<1>3. ASSUME Panic PROVE PoolInv'
  BY <1>3 DEF Panic, DropArcs, PoolInv
<1>4. CASE CreateMempool
  <2>1. CASE phase' = "build" /\ pool' = "alive" /\ refs' = {"run"}
    BY <2>1 DEF PoolInv
  <2> QED BY <1>3, <1>4, <2>1 DEF CreateMempool
<1>5. CASE Build
  <2>1. ASSUME ~Panic PROVE /\ UNCHANGED mem /\ phase # "mempool" /\ phase' # "mempool"
                            /\ phase \notin {"returned", "panicked"}
    BY <1>5, <2>1 DEF Build, configure, rx_queue_setup, tx_queue_setup, configure_rss_reta,
              update_rss_hash, start, mac_addr, BuildStep
  <2> QED BY <1>1, <1>3, <2>1
<1>6. ASSUME NEW i \in 1 .. N, StartWorker(i), phase' \in {phase, "main"}, phase = "launch"
      PROVE  PoolInv'
  <2>1. Lcores[i] \in Ids
    BY Constants
  <2> QED BY <1>6, <2>1 DEF StartWorker, PoolInv
<1>7. CASE Launch
  <2>1. CASE Panic
    BY <1>3, <2>1
  <2>2. CASE StartWorker(next) /\ phase' = phase
    <3>1. next \in 1 .. N /\ phase = "launch"
      BY <1>7, Constants DEF Launch
    <3> QED BY <1>6, <2>2, <3>1
  <2> QED BY <1>7, <2>1, <2>2 DEF Launch
<1>8. CASE RunMain
  BY <1>6, <1>8 DEF RunMain
<1>9. CASE MainPanics
  BY <1>9 DEF MainPanics, DropArcs, PoolInv
<1>10. CASE SkipMain \/ MainReturns \/ WaitAllWorkers \/ Stop \/ Close
  <2>1. /\ UNCHANGED mem /\ phase \in {"launch", "main", "wait", "stop", "close"}
        /\ phase' \in {"launch", "wait", "stop", "close", "drop"}
    BY <1>10 DEF SkipMain, MainReturns, WaitAllWorkers, Stop, Close
  <2> QED BY <1>1, <2>1
<1>11. CASE DropMempool
  BY <1>11 DEF DropMempool, DropArcs, PoolInv
<1>12. ASSUME NEW l \in Ids, Worker(l) \/ OtherEnds(l) PROVE PoolInv'
  <2>1. CASE ReactorEnds(l)
    BY <2>1, OthersDrop DEF ReactorEnds
  <2>2. CASE ~ReactorEnds(l)
    <3>1. UNCHANGED mem /\ phase' = phase
      BY <1>12, <2>2 DEF Worker, ServerReturns, DeviceDropped, OtherEnds
    <3> QED BY <1>1, <3>1
  <2> QED BY <2>1, <2>2
<1>13. CASE UNCHANGED vars
  BY <1>1, <1>13 DEF vars
<1> QED BY <1>2, <1>4, <1>5, <1>7, <1>8, <1>9, <1>10, <1>11, <1>12, <1>13 DEF Next, Run

InUse == {"serving", "cancelled", "dropping"}

WorkType ==
    /\ next \in 1 .. N + 1
    /\ lcore \in [Ids -> {"wait", "other", "running"}]
    /\ worker \in [Ids -> {"off", "serving", "cancelled", "dropping", "finished"}]
    /\ queue \in [Ids -> 0 .. N]

\* rte knows of every worker but the main one, so that nobody is in the way of
\* taking the port down; an lcore polls the queue of its place.
WorkInv ==
    /\ \A l \in Ids \ {Main} : worker[l] \in InUse => lcore[l] = "running"
    /\ phase = "launch" =>
          \A i \in 1 .. N : i < next /\ Lcores[i] # Main => queue[Lcores[i]] = i - 1
    /\ phase \in {"main", "wait"} => \A i \in 1 .. N : queue[Lcores[i]] = i - 1
    /\ phase = "wait" => worker[Main] = "finished"
    /\ phase \in {"stop", "close", "drop", "returned"} => Quiet

\* The loop starts at the first lcore.
LoopInv == phase \in {"mempool", "build", "rx", "tx", "reta", "hash", "start", "mac"} => next = 1

\* At the start no lcore works.
LEMMA WorkInit == Init => WorkType /\ WorkInv /\ LoopInv
  BY Constants DEF Init, WorkType, WorkInv, LoopInv, InUse

\* One lcore more becomes a worker.
LEMMA Started ==
    ASSUME WorkType, NEW i \in 1 .. N, StartWorker(i),
           \A l \in Ids \ {Main} : worker[l] \in InUse => lcore[l] = "running"
    PROVE  /\ lcore' \in [Ids -> {"wait", "other", "running"}]
           /\ worker' \in [Ids -> {"off", "serving", "cancelled", "dropping", "finished"}]
           /\ queue' \in [Ids -> 0 .. N]
           /\ \A l \in Ids \ {Main} : worker'[l] \in InUse => lcore'[l] = "running"
           /\ queue'[Lcores[i]] = i - 1
           /\ \A k \in 1 .. N : k # i => queue'[Lcores[k]] = queue[Lcores[k]]
<1>1. Lcores[i] \in Ids /\ i - 1 \in 0 .. N /\ N \in Nat
  BY Constants
<1>2. \A k \in 1 .. N : Lcores[k] \in Ids /\ (k # i => Lcores[k] # Lcores[i])
  BY Constants, AppAssumption
<1> QED BY <1>1, <1>2 DEF StartWorker, QueueOf, WorkType

\* Launching, polling and returning keep what rte counts as running.
LEMMA WorkStep ==
    ASSUME WorkType, WorkInv, LoopInv, [Next]_vars
    PROVE  WorkType' /\ WorkInv' /\ LoopInv'
<1> DEFINE Early == {"mempool", "build", "rx", "tx", "reta", "hash", "start", "mac"}
<1>1. ASSUME UNCHANGED <<work, next>>, phase' = phase
      PROVE  WorkType' /\ WorkInv' /\ LoopInv'
  BY <1>1 DEF work, WorkType, WorkInv, LoopInv, Quiet
<1>2. ASSUME UNCHANGED <<work, next>>, phase' = "panicked"
      PROVE  WorkType' /\ WorkInv' /\ LoopInv'
  BY <1>2 DEF work, WorkType, WorkInv, LoopInv, Quiet
<1>3. ASSUME UNCHANGED <<work, next>>, phase \in Early, phase' \in Early \cup {"launch"}
      PROVE  WorkType' /\ WorkInv' /\ LoopInv'
  <2>1. next = 1
    BY <1>3 DEF LoopInv
  <2>2. \A i \in 1 .. N : ~(i < 1)
    BY Constants
  <2> QED BY <1>3, <2>1, <2>2 DEF work, WorkType, WorkInv, LoopInv, Quiet
<1>4. CASE \E t \in Threads : Thread(t)
  <2>1. UNCHANGED <<work, next>> /\ phase' = phase
    BY <1>4 DEF Thread, InitSwap, InitPanics, RteEalInit, InitResets, Retry, DropEal, DropStores
  <2> QED BY <1>1, <2>1
<1>5. CASE CreateMempool \/ Build
  <2>1. /\ UNCHANGED <<work, next>> /\ phase \in Early
        /\ phase' \in Early \cup {"launch", "panicked"}
    BY <1>5 DEF CreateMempool, Build, configure, rx_queue_setup, tx_queue_setup,
         configure_rss_reta, update_rss_hash, start, mac_addr, BuildStep, Panic
  <2> QED BY <1>2, <1>3, <2>1
<1>6. CASE Launch
  <2>1. next \in 1 .. N /\ phase = "launch" /\ Lcores[next] # Main /\ N \in Nat
    BY <1>6, Constants DEF Launch, WorkType
  <2>2. CASE StartWorker(next) /\ next' = next + 1 /\ phase' = phase
    <3>1. /\ lcore' \in [Ids -> {"wait", "other", "running"}]
          /\ worker' \in [Ids -> {"off", "serving", "cancelled", "dropping", "finished"}]
          /\ queue' \in [Ids -> 0 .. N]
          /\ \A l \in Ids \ {Main} : worker'[l] \in InUse => lcore'[l] = "running"
          /\ queue'[Lcores[next]] = next - 1
          /\ \A k \in 1 .. N : k # next => queue'[Lcores[k]] = queue[Lcores[k]]
      BY <2>1, <2>2, Started DEF WorkInv
    <3>2. \A i \in 1 .. N : i < next' /\ Lcores[i] # Main => queue'[Lcores[i]] = i - 1
      BY <2>1, <2>2, <3>1 DEF WorkInv
    <3> QED BY <2>1, <2>2, <3>1, <3>2 DEF WorkType, WorkInv, LoopInv
  <2>3. CASE Panic /\ UNCHANGED <<work, next>>
    BY <1>2, <2>3 DEF Panic
  <2> QED BY <1>6, <2>2, <2>3 DEF Launch
<1>7. CASE SkipMain
  <2>1. /\ next \in 1 .. N /\ phase = "launch" /\ Lcores[next] = Main /\ N \in Nat
        /\ next' = next + 1 /\ phase' = phase /\ UNCHANGED <<lcore, worker, queue>>
    BY <1>7, Constants DEF SkipMain, WorkType, work
  <2>2. \A i \in 1 .. N : i < next' /\ Lcores[i] # Main => queue'[Lcores[i]] = i - 1
    BY <2>1 DEF WorkInv
  <2> QED BY <2>1, <2>2 DEF WorkType, WorkInv, LoopInv
<1>8. CASE RunMain
  <2>1. PICK m \in 1 .. N : Lcores[m] = Main /\ StartWorker(m)
    BY <1>8 DEF RunMain
  <2>2. phase = "launch" /\ next = N + 1 /\ phase' = "main" /\ next' = next /\ N \in Nat
    BY <1>8, Constants DEF RunMain
  <2>3. /\ lcore' \in [Ids -> {"wait", "other", "running"}]
        /\ worker' \in [Ids -> {"off", "serving", "cancelled", "dropping", "finished"}]
        /\ queue' \in [Ids -> 0 .. N]
        /\ \A l \in Ids \ {Main} : worker'[l] \in InUse => lcore'[l] = "running"
        /\ queue'[Lcores[m]] = m - 1
        /\ \A k \in 1 .. N : k # m => queue'[Lcores[k]] = queue[Lcores[k]]
    BY <2>1, Started DEF WorkInv
  <2>4. \A i \in 1 .. N : i # m => i < next /\ Lcores[i] # Main
    BY <2>1, <2>2, AppAssumption
  <2>5. \A i \in 1 .. N : queue'[Lcores[i]] = i - 1
    BY <2>2, <2>3, <2>4 DEF WorkInv
  <2> QED BY <2>2, <2>3, <2>5 DEF WorkType, WorkInv, LoopInv
<1>9. CASE MainPanics
  BY <1>9 DEF MainPanics, WorkType, WorkInv, LoopInv, InUse
<1>10. CASE MainReturns
  BY <1>10 DEF MainReturns, WorkType, WorkInv, LoopInv, work
<1>11. CASE WaitAllWorkers
  <2>1. Quiet
    BY <1>11 DEF WaitAllWorkers, WorkType, WorkInv, Quiet, InUse
  <2> QED BY <1>11, <2>1 DEF WaitAllWorkers, WorkType, WorkInv, LoopInv, work, Quiet
<1>12. CASE Stop \/ Close \/ DropMempool
  BY <1>12 DEF Stop, Close, DropMempool, WorkType, WorkInv, LoopInv, work, Quiet
<1>13. ASSUME NEW l \in Ids, Worker(l) \/ OtherEnds(l)
       PROVE  WorkType' /\ WorkInv' /\ LoopInv'
  <2>1. /\ UNCHANGED <<phase, next, queue>>
        /\ \/ /\ worker[l] \in InUse
              /\ \E v \in {"cancelled", "dropping", "finished"} :
                    worker' = [worker EXCEPT ![l] = v] /\ (v \in InUse => UNCHANGED lcore)
              /\ lcore' \in {lcore, [lcore EXCEPT ![l] = "wait"]}
           \/ /\ lcore[l] = "other" /\ lcore' = [lcore EXCEPT ![l] = "wait"]
              /\ UNCHANGED worker
    BY <1>13 DEF Worker, ServerReturns, ReactorEnds, DeviceDropped, OtherEnds, InUse
  <2>2. WorkType' /\ LoopInv'
    BY <2>1 DEF WorkType, LoopInv
  <2>3. \A k \in Ids \ {Main} : worker'[k] \in InUse => lcore'[k] = "running"
    BY <2>1 DEF WorkType, WorkInv, InUse
  <2>4. phase = "wait" => worker'[Main] = "finished"
    BY <2>1, AppAssumption DEF WorkType, WorkInv, InUse
  <2>5. Quiet => Quiet'
    BY <2>1 DEF WorkType, Quiet, InUse
  <2> QED BY <2>1, <2>2, <2>3, <2>4, <2>5 DEF WorkInv
<1>14. CASE UNCHANGED vars
  BY <1>1, <1>14 DEF vars
<1> QED BY <1>4, <1>5, <1>6, <1>7, <1>8, <1>9, <1>10, <1>11, <1>12, <1>13, <1>14 DEF Next, Run

-----------------------------------------------------------------------------
(* The whole application.                                                  *)

Inv == EalType /\ OneHolder /\ PortInv /\ PoolInv /\ WorkType /\ WorkInv /\ LoopInv

\* The inductive invariant of DpdkApp::run holds.
LEMMA InvHolds == Spec => []Inv
<1>1. Init => Inv
  BY EalInit, PortInit, PoolInit, WorkInit DEF Inv
<1>2. Inv /\ [Next]_vars => Inv'
  <2> SUFFICES ASSUME Inv, [Next]_vars PROVE Inv'
    OBVIOUS
  <2>1. EalType' /\ OneHolder'
    BY EalStep DEF Inv
  <2>2. PortInv'
    BY PortStep DEF Inv
  <2>3. PoolInv'
    BY PoolStep DEF Inv, WorkType
  <2>4. WorkType' /\ WorkInv' /\ LoopInv'
    BY WorkStep DEF Inv
  <2> QED BY <2>1, <2>2, <2>3, <2>4 DEF Inv
<1> QED BY <1>1, <1>2, PTL DEF Spec

\* The invariant has the teardown in its order.
LEMMA InOrder == Inv => TakenDownInOrder
<1> SUFFICES ASSUME Inv, phase # "panicked"
             PROVE  /\ dev \in {"stopped", "closed"} \/ rte = "cleaned" => Quiet
                    /\ pool = "freed" => dev = "closed" /\ Quiet
  BY DEF TakenDownInOrder
<1>1. phase \in Phases /\ DevInv
  BY DEF Inv, PortInv, PortType
<1>2. dev \in {"stopped", "closed"} => phase \in {"close", "drop", "returned"}
  BY <1>1 DEF DevInv, Phases, Fresh, Built
<1>3. pool = "freed" => phase = "returned"
  BY DEF Inv, PoolInv
<1> QED BY <1>1, <1>2, <1>3 DEF Inv, DevInv, WorkInv

\* The invariant has every queue of the RETA polled by an lcore.
LEMMA Served == Inv => EveryQueueServed
<1> DEFINE share(q) == Cardinality({e \in DOMAIN reta : reta[e] = q})
<1> SUFFICES ASSUME Inv, phase \in {"main", "wait"}
             PROVE  /\ rx = Queues /\ tx = Queues /\ dev = "started"
                    /\ \A q \in Queues : Cardinality({l \in Ids : queue[l] = q}) = 1
                    /\ \A p, q \in Queues : share(p) <= share(q) + 1
                    /\ reta # <<>> => hash # "off"
  BY Zenon DEF EveryQueueServed
<1>1. rx = Queues /\ tx = Queues /\ dev = "started"
  BY DEF Inv, PortInv, DevInv, QueueInv, Built
<1>2. reta # <<>> => hash # "off"
  BY DEF Inv, PortInv, RssInv, Fresh
<1>3. ASSUME NEW q \in Queues PROVE Cardinality({l \in Ids : queue[l] = q}) = 1
  <2>1. q + 1 \in 1 .. N /\ N \in Nat
    BY Constants DEF Queues
  <2>2. \A i \in 1 .. N : queue[Lcores[i]] = i - 1
    BY DEF Inv, WorkInv
  <2>3. Lcores[q + 1] \in Ids /\ queue[Lcores[q + 1]] = q
    BY <2>1, <2>2, Constants DEF Queues
  <2>4. ASSUME NEW l \in Ids, queue[l] = q PROVE l = Lcores[q + 1]
    <3>1. PICK i \in 1 .. N : l = Lcores[i]
      BY Constants
    <3>2. i - 1 = q
      BY <2>2, <2>4, <3>1
    <3>3. i = q + 1
      BY <2>1, <3>2 DEF Queues
    <3> QED BY <3>1, <3>3
  <2>5. {l \in Ids : queue[l] = q} = {Lcores[q + 1]}
    BY <2>3, <2>4
  <2> QED BY <2>5, FS_Singleton
<1>4. ASSUME NEW p \in Queues, NEW q \in Queues PROVE share(p) <= share(q) + 1
  <2>1. CASE reta = <<>>
    <3>1. \A r : {e \in DOMAIN reta : reta[e] = r} = {}
      BY <2>1
    <3> QED BY <3>1, FS_EmptySet
  <2>2. CASE reta = Reta(reta_size)
    <3>1. reta_size \in Nat /\ 0 .. reta_size - 1 = 0 .. 0 + reta_size - 1
      BY AppAssumption DEF Inv, PortInv, PortType
    <3>2. \A r : {e \in DOMAIN reta : reta[e] = r} = Dealt(0 .. reta_size - 1, 0, N, r)
      <4>1. \A e \in 0 .. reta_size - 1 : e - 0 = e
        BY <3>1
      <4> QED BY <2>2, <4>1 DEF Reta, Dealt
    <3>3. Cardinality(Dealt(0 .. reta_size - 1, 0, N, p))
              <= Cardinality(Dealt(0 .. reta_size - 1, 0, N, q)) + 1
      BY <3>1, Constants, EvenTickets DEF Queues
    <3> QED BY <3>2, <3>3
  <2> QED BY <2>1, <2>2 DEF Inv, PortInv, RssInv
<1> QED BY <1>1, <1>2, <1>3, <1>4

-----------------------------------------------------------------------------

\* The application keeps its types: queues set up are queues of the port, and
\* Arcs of the pool are held by run and its lcores (app.rs, eth.rs, eal.rs).
THEOREM AppTypeCorrect == Spec => []TypeOK
<1>1. Inv => TypeOK
  BY DEF Inv, EalType, PortInv, PortType, PoolInv, WorkType, TypeOK, Phases
<1> QED BY <1>1, InvHolds, PTL

\* However many threads race in Eal::init, and retry, one at a time holds the
\* EAL and the flag says so (eal.rs: swap, reset on failure, Drop).
THEOREM EalIsExclusive == Spec => []EalHasOneUser
<1>1. Inv => EalHasOneUser
  BY OneUser DEF Inv
<1> QED BY <1>1, InvHolds, PTL

\* run takes the port, the pool and the EAL down only when nobody uses them
\* any more, for any number of lcores (app.rs:277-284).
THEOREM TeardownIsOrdered == Spec => []TakenDownInOrder
  BY InOrder, InvHolds, PTL

\* Every queue has one lcore and its share of the redirection table, for any
\* number of lcores, any place of the main one and any size of the table.
THEOREM QueuesAreServed == Spec => []EveryQueueServed
  BY Served, InvHolds, PTL

-----------------------------------------------------------------------------
(* What run waits for, and when the pool goes.                             *)

\* rte counts an lcore as running only while its worker works, and whatever
\* somebody else ran on an lcore was over when run launched its worker there.
WaitInv ==
    /\ \A l \in Ids \ {Main} : lcore[l] = "running" => worker[l] \in InUse
    /\ phase = "launch" =>
          \A i \in 1 .. N : i < next /\ Lcores[i] # Main => lcore[Lcores[i]] # "other"
    /\ phase \in {"main", "wait"} => \A l \in Ids \ {Main} : lcore[l] # "other"
    /\ phase = "main" => worker[Main] \in InUse \cup {"finished"}

\* One lcore more is launched: rte and its worker agree.
LEMMA StartedAgrees ==
    ASSUME WorkType, WaitInv, NEW i \in 1 .. N, StartWorker(i)
    PROVE  /\ \A l \in Ids \ {Main} : lcore'[l] = "running" => worker'[l] \in InUse
           /\ worker'[Lcores[i]] = "serving"
           /\ Lcores[i] # Main => lcore'[Lcores[i]] = "running"
           /\ \A l \in Ids : l # Lcores[i] => lcore'[l] = lcore[l] /\ worker'[l] = worker[l]
           /\ lcore'[Main] = lcore[Main] \/ Lcores[i] # Main
<1>1. Lcores[i] \in Ids
  BY Constants
<1> QED BY <1>1 DEF StartWorker, WorkType, WaitInv, InUse

\* Every step keeps what run is going to wait for.
LEMMA WaitStep ==
    ASSUME WorkType, WaitInv, LoopInv, [Next]_vars
    PROVE  WaitInv'
<1> DEFINE Early == {"mempool", "build", "rx", "tx", "reta", "hash", "start", "mac"}
<1>1. ASSUME UNCHANGED <<work, next>>, phase' \notin {"launch", "main", "wait"} \/ phase' = phase
      PROVE  WaitInv'
  BY <1>1 DEF work, WaitInv
<1>2. CASE \E t \in Threads : Thread(t)
  <2>1. UNCHANGED <<work, next>> /\ phase' = phase
    BY <1>2 DEF Thread, InitSwap, InitPanics, RteEalInit, InitResets, Retry, DropEal, DropStores
  <2> QED BY <1>1, <2>1
<1>3. CASE CreateMempool \/ Build
  <2>1. /\ UNCHANGED <<work, next>> /\ phase \in Early
        /\ phase' \in Early \cup {"launch", "panicked"}
    BY <1>3 DEF CreateMempool, Build, configure, rx_queue_setup, tx_queue_setup,
         configure_rss_reta, update_rss_hash, start, mac_addr, BuildStep, Panic
  <2>2. next = 1 /\ \A i \in 1 .. N : ~(i < 1)
    BY <2>1, Constants DEF LoopInv
  <2> QED BY <2>1, <2>2 DEF work, WaitInv
<1>4. CASE Launch
  <2>1. next \in 1 .. N /\ phase = "launch" /\ Lcores[next] # Main /\ N \in Nat
    BY <1>4, Constants DEF Launch, WorkType
  <2>2. CASE StartWorker(next) /\ next' = next + 1 /\ phase' = phase
    <3>1. /\ \A l \in Ids \ {Main} : lcore'[l] = "running" => worker'[l] \in InUse
          /\ lcore'[Lcores[next]] = "running"
          /\ \A l \in Ids : l # Lcores[next] => lcore'[l] = lcore[l]
      BY <2>1, <2>2, StartedAgrees
    <3>2. ASSUME NEW k \in 1 .. N, k < next', Lcores[k] # Main
          PROVE  lcore'[Lcores[k]] # "other"
      <4>1. Lcores[k] \in Ids /\ (k = next \/ k < next)
        BY <2>1, <2>2, <3>2, Constants
      <4> QED BY <2>1, <3>1, <3>2, <4>1 DEF WaitInv
    <3> QED BY <2>1, <2>2, <3>1, <3>2 DEF WaitInv
  <2>3. CASE Panic /\ UNCHANGED <<work, next>>
    BY <1>1, <2>3 DEF Panic
  <2> QED BY <1>4, <2>2, <2>3 DEF Launch
<1>5. CASE SkipMain
  <2>1. /\ next \in 1 .. N /\ phase = "launch" /\ Lcores[next] = Main /\ N \in Nat
        /\ next' = next + 1 /\ phase' = phase /\ UNCHANGED <<lcore, worker>>
    BY <1>5, Constants DEF SkipMain, WorkType, work
  <2>2. \A i \in 1 .. N : i < next' /\ Lcores[i] # Main => lcore[Lcores[i]] # "other"
    BY <2>1 DEF WaitInv
  <2> QED BY <2>1, <2>2 DEF WaitInv
<1>6. CASE RunMain
  <2>1. PICK m \in 1 .. N : Lcores[m] = Main /\ StartWorker(m)
    BY <1>6 DEF RunMain
  <2>2. phase = "launch" /\ next = N + 1 /\ phase' = "main" /\ N \in Nat
    BY <1>6, Constants DEF RunMain
  <2>3. /\ \A l \in Ids \ {Main} : lcore'[l] = "running" => worker'[l] \in InUse
        /\ worker'[Main] = "serving"
        /\ \A l \in Ids \ {Main} : lcore'[l] = lcore[l]
    BY <2>1, StartedAgrees
  <2>4. ASSUME NEW l \in Ids \ {Main} PROVE lcore[l] # "other"
    <3>1. PICK i \in 1 .. N : Lcores[i] = l
      BY DEF Ids
    <3> QED BY <2>2, <3>1 DEF WaitInv
  <2> QED BY <2>2, <2>3, <2>4 DEF WaitInv, InUse
<1>7. CASE MainPanics
  <2>1. Main \in Ids
    BY AppAssumption
  <2> QED BY <1>7, <2>1 DEF MainPanics, WaitInv, WorkType
<1>8. CASE MainReturns
  BY <1>8 DEF MainReturns, WaitInv, work
<1>9. CASE WaitAllWorkers \/ Stop \/ Close \/ DropMempool
  <2>1. UNCHANGED <<work, next>> /\ phase' \in {"stop", "close", "drop", "returned"}
    BY <1>9 DEF WaitAllWorkers, Stop, Close, DropMempool
  <2> QED BY <1>1, <2>1
<1>10. ASSUME NEW l \in Ids, Worker(l) PROVE WaitInv'
  <2>1. /\ UNCHANGED <<phase, next>> /\ worker[l] \in InUse
        /\ \E v \in {"cancelled", "dropping", "finished"} :
              /\ worker' = [worker EXCEPT ![l] = v]
              /\ lcore' = IF v = "finished" THEN [lcore EXCEPT ![l] = "wait"] ELSE lcore
    BY <1>10 DEF Worker, ServerReturns, ReactorEnds, DeviceDropped, InUse
  <2>2. \A k \in Ids : lcore'[k] # "other" \/ lcore[k] = "other"
    BY <2>1 DEF WorkType
  <2>3. \A k \in Ids \ {Main} : lcore'[k] = "running" => worker'[k] \in InUse
    BY <2>1 DEF WorkType, WaitInv, InUse
  <2>4. phase = "main" => worker'[Main] \in InUse \cup {"finished"}
    BY <2>1, AppAssumption DEF WorkType, WaitInv, InUse
  <2>5. \A i \in 1 .. N : Lcores[i] \in Ids
    BY Constants
  <2> QED BY <2>1, <2>2, <2>3, <2>4, <2>5 DEF WaitInv
<1>11. ASSUME NEW l \in Ids, OtherEnds(l) PROVE WaitInv'
  <2>1. /\ lcore' = [lcore EXCEPT ![l] = "wait"] /\ UNCHANGED <<worker, phase, next>>
        /\ \A i \in 1 .. N : Lcores[i] \in Ids
    BY <1>11, Constants DEF OtherEnds
  <2> QED BY <2>1 DEF WorkType, WaitInv
<1>12. CASE UNCHANGED vars
  BY <1>1, <1>12 DEF vars
<1> QED BY <1>2, <1>3, <1>4, <1>5, <1>6, <1>7, <1>8, <1>9, <1>10, <1>11, <1>12 DEF Next, Run

\* run waits only for lcores that will be done: while it runs the server on its
\* own lcore and while it waits for the others, every other lcore is back, or rte
\* counts it as running and its worker really works.
RunMovesOn ==
    /\ phase = "main" => worker[Main] \in InUse \cup {"finished"}
    /\ phase \in {"main", "wait"} =>
          \A l \in Ids \ {Main} :
             lcore[l] = "wait" \/ (lcore[l] = "running" /\ worker[l] \in InUse)

\* wait_all_workers never waits for an lcore that has nothing left to finish, for
\* any number of lcores and any place of the main one, whatever else ran on them
\* before (launch refuses those) and in whatever order the workers end.  It is the
\* safety half of RunReturns: what is left to fairness is that servers return.
THEOREM RunNeverStalls == Spec => []RunMovesOn
<1>1. Init => WaitInv
  BY DEF Init, WaitInv
<1>2. Inv /\ WaitInv /\ [Next]_vars => WaitInv'
  BY WaitStep DEF Inv
<1>3. Inv /\ WaitInv => RunMovesOn
  BY DEF Inv, WorkType, WaitInv, RunMovesOn
<1> QED BY <1>1, <1>2, <1>3, InvHolds, PTL DEF Spec

\* The pool lives exactly as long as somebody holds an Arc of it, a worker holds
\* one from its launch until its device goes, and nobody after run has returned.
PoolHasUsers ==
    /\ \A l \in Ids : l \in refs <=> worker[l] \in {"serving", "cancelled"}
    /\ pool = "alive" <=> refs # {}
    /\ phase = "returned" => pool = "freed"

\* Every step keeps the pool with its users.
LEMMA UsersStep ==
    ASSUME PoolInv, WorkType, WorkInv, PoolHasUsers, [Next]_vars
    PROVE  PoolHasUsers'
<1>0. "run" \notin Ids /\ Main \in Ids
  BY AppAssumption
<1>1. ASSUME UNCHANGED <<pool, refs, worker>>, phase' # "returned" \/ phase' = phase
      PROVE  PoolHasUsers'
  BY <1>1 DEF PoolHasUsers
<1>2. CASE \E t \in Threads : Thread(t)
  <2>1. UNCHANGED <<pool, refs, worker>> /\ phase' = phase
    BY <1>2 DEF Thread, InitSwap, InitPanics, RteEalInit, InitResets, Retry, DropEal, DropStores,
                mem, work
  <2> QED BY <1>1, <2>1
<1>3. ASSUME Panic, UNCHANGED worker PROVE PoolHasUsers'
  <2>1. pool' = (IF refs # {} /\ refs \subseteq {"run"} THEN "freed" ELSE pool)
        /\ refs' = refs \ {"run"} /\ phase' = "panicked"
    BY <1>3 DEF Panic, DropArcs
  <2> QED BY <1>0, <1>3, <2>1 DEF PoolHasUsers
<1>4. CASE CreateMempool
  <2>1. CASE phase' = "build" /\ pool' = "alive" /\ refs' = {"run"}
    <3>1. refs = {} /\ UNCHANGED worker
      BY <1>4 DEF CreateMempool, PoolInv, work
    <3> QED BY <1>0, <2>1, <3>1 DEF PoolHasUsers
  <2> QED BY <1>3, <1>4, <2>1 DEF CreateMempool, work
<1>5. CASE Build
  <2>1. ASSUME ~Panic PROVE UNCHANGED <<pool, refs, worker>> /\ phase' # "returned"
    BY <1>5, <2>1 DEF Build, configure, rx_queue_setup, tx_queue_setup, configure_rss_reta,
              update_rss_hash, start, mac_addr, BuildStep, mem, work
  <2>2. UNCHANGED worker
    BY <1>5 DEF Build, configure, rx_queue_setup, tx_queue_setup, configure_rss_reta,
              update_rss_hash, start, mac_addr, BuildStep, work
  <2> QED BY <1>1, <1>3, <2>1, <2>2
<1>6. ASSUME NEW i \in 1 .. N, StartWorker(i), phase = "launch", phase' # "returned"
      PROVE  PoolHasUsers'
  <2>1. /\ Lcores[i] \in Ids /\ pool' = "alive"
        /\ refs' = refs \cup {Lcores[i]} /\ worker' = [worker EXCEPT ![Lcores[i]] = "serving"]
    BY <1>6, Constants DEF StartWorker, PoolInv
  <2> QED BY <1>6, <2>1 DEF PoolHasUsers, WorkType
<1>7. CASE Launch
  <2>1. next \in 1 .. N /\ phase = "launch"
    BY <1>7, Constants DEF Launch, WorkType
  <2>2. CASE Panic /\ UNCHANGED work
    BY <1>3, <2>2 DEF work
  <2>3. CASE StartWorker(next) /\ phase' = phase
    BY <1>6, <2>1, <2>3
  <2> QED BY <1>7, <2>2, <2>3 DEF Launch
<1>8. CASE RunMain
  BY <1>6, <1>8 DEF RunMain
<1>9. CASE MainPanics
  <2>1. /\ pool' = (IF refs # {} /\ refs \subseteq {"run", Main} THEN "freed" ELSE pool)
        /\ refs' = refs \ {"run", Main} /\ phase' = "panicked"
        /\ worker' = [worker EXCEPT ![Main] = "finished"]
    BY <1>9 DEF MainPanics, DropArcs
  <2> QED BY <1>0, <2>1 DEF PoolHasUsers, WorkType
<1>10. CASE SkipMain \/ MainReturns \/ WaitAllWorkers \/ Stop \/ Close
  <2>1. UNCHANGED <<pool, refs, worker>> /\ phase' # "returned"
    BY <1>10 DEF SkipMain, MainReturns, WaitAllWorkers, Stop, Close, mem, work
  <2> QED BY <1>1, <2>1
<1>11. CASE DropMempool
  <2>1. /\ pool' = (IF refs # {} /\ refs \subseteq {"run"} THEN "freed" ELSE pool)
        /\ refs' = refs \ {"run"} /\ UNCHANGED worker /\ phase = "drop"
    BY <1>11 DEF DropMempool, DropArcs, work
  <2>2. refs = {"run"}
    BY <2>1 DEF PoolInv, WorkInv, Quiet, PoolHasUsers
  <2> QED BY <1>0, <2>1, <2>2 DEF PoolHasUsers
<1>12. ASSUME NEW l \in Ids, ReactorEnds(l) PROVE PoolHasUsers'
  <2>1. /\ pool' = (IF refs # {} /\ refs \subseteq {l} THEN "freed" ELSE pool)
        /\ refs' = refs \ {l} /\ worker' = [worker EXCEPT ![l] = "dropping"]
        /\ phase' = phase
    BY <1>12 DEF ReactorEnds, DropArcs
  <2> QED BY <1>12, <2>1 DEF PoolHasUsers, WorkType
<1>13. ASSUME NEW l \in Ids, ServerReturns(l) \/ DeviceDropped(l) \/ OtherEnds(l)
       PROVE  PoolHasUsers'
  <2>1. /\ UNCHANGED <<pool, refs, phase>>
        /\ \/ UNCHANGED worker
           \/ worker[l] = "serving" /\ worker' = [worker EXCEPT ![l] = "cancelled"]
           \/ worker[l] = "dropping" /\ worker' = [worker EXCEPT ![l] = "finished"]
    BY <1>13 DEF ServerReturns, DeviceDropped, OtherEnds, mem
  <2> QED BY <2>1 DEF PoolHasUsers, WorkType
<1>14. CASE UNCHANGED vars
  BY <1>1, <1>14 DEF vars, mem, work
<1> QED BY <1>2, <1>4, <1>5, <1>7, <1>8, <1>9, <1>10, <1>11, <1>12, <1>13, <1>14
        DEF Next, Run, Worker

\* The mempool is freed by whoever drops its last Arc, never before and never by
\* nobody: not under a worker that outlives a run that panicked, and at the latest
\* when run returns (Arc<MemPool> in DpdkApp::run, run_worker and DpdkDevice).
THEOREM PoolLivesWithItsUsers == Spec => []PoolHasUsers
<1>1. Init => PoolHasUsers
  BY DEF Init, PoolHasUsers
<1>2. Inv /\ PoolHasUsers /\ [Next]_vars => PoolHasUsers'
  BY UsersStep DEF Inv
<1> QED BY <1>1, <1>2, InvHolds, PTL DEF Spec

-----------------------------------------------------------------------------
(* LaunchBuilder and LaunchHandle.  L!Inv: what the loop has launched so   *)
(* far are closures of this launch, each on an lcore it was meant for, and *)
(* the lcores waited for so far are idle with their own results collected. *)

\* Before a launch no lcore has a closure.
LEMMA LaunchInit == L!Init => L!Inv
  BY DEF L!Init, L!Inv, L!TypeOK, L!ResultsAreOwn

\* Every step of LaunchBuilder::launch and of wait keeps what it has passed.
LEMMA LaunchNext == ASSUME L!Inv, [L!Next]_L!vars PROVE L!Inv'
<1> USE DEF L!TypeOK, L!ResultsAreOwn, L!is_done
<1>1. ASSUME NEW s \in SUBSET Enabled, L!Retain(s) PROVE L!Inv'
  <2>1. targets' \in Seq(Enabled)
    BY <1>1 DEF L!Retain, L!Inv
  <2> QED BY <1>1, <2>1 DEF L!Retain, L!Inv
<1>2. ASSUME NEW n \in Nat, L!take(n) PROVE L!Inv'
  <2>1. targets' \in Seq(Enabled)
    BY <1>2 DEF L!take, L!Inv
  <2> QED BY <1>2, <2>1 DEF L!take, L!Inv
<1>3. CASE L!Selected
  BY <1>3 DEF L!Selected, L!Inv
<1>4. CASE L!Launch
  <2>1. targets[turn] \in Enabled /\ turn \in 1..Len(targets)
    BY <1>4 DEF L!Launch, L!Inv
  <2>2. ASSUME NEW k \in 1..turn PROVE L!JobIsOwn(k)'
    <3>1. CASE targets[k] = targets[turn]
      BY <1>4, <2>1, <3>1 DEF L!Launch, L!Inv, L!JobIsOwn
    <3>2. CASE targets[k] # targets[turn]
      BY <1>4, <2>1, <3>2 DEF L!Launch, L!Inv, L!JobIsOwn
    <3> QED BY <3>1, <3>2
  <2>3. L!TypeOK'
    BY <1>4, <2>1 DEF L!Launch, L!Inv
  <2> QED BY <1>4, <2>1, <2>2, <2>3 DEF L!Launch, L!Inv
<1>5. CASE L!LaunchRefused
  BY <1>5 DEF L!LaunchRefused, L!Inv
<1>6. CASE L!Launched
  BY <1>6 DEF L!Launched, L!Inv, L!JobIsOwn
<1>7. CASE L!wait
  <2>1. targets[turn] \in Enabled /\ turn \in 1..Len(targets) /\ L!JobIsOwn(turn)
    BY <1>7 DEF L!wait, L!Inv
  <2>2. /\ results' \in Seq(Nat) /\ Len(results') = turn
        /\ results'[turn] = jobs[targets[turn]]
        /\ \A k \in 1..(turn - 1) : results'[k] = results[k]
    BY <1>7, <2>1 DEF L!wait, L!Inv
  <2>3. L!TypeOK'
    BY <1>7, <2>1, <2>2 DEF L!wait, L!Inv
  <2> QED BY <1>7, <2>1, <2>2, <2>3 DEF L!wait, L!Inv, L!JobIsOwn
<1>8. CASE L!Return
  BY <1>8 DEF L!Return, L!Inv
<1>9. ASSUME NEW l \in Enabled, L!Finishes(l) PROVE L!Inv'
  BY <1>9 DEF L!Finishes, L!Inv, L!JobIsOwn
<1>10. CASE UNCHANGED L!vars
  BY <1>10 DEF L!vars, L!Inv, L!JobIsOwn
<1> QED
  BY <1>1, <1>2, <1>3, <1>4, <1>5, <1>6, <1>7, <1>8, <1>9, <1>10 DEF L!Next

\* LaunchHandle::wait returns the results of its own launch, one per lcore and
\* in order, whatever was running when the builder started.
THEOREM WaitReturnsOwnResults == L!Spec => []L!ResultsAreOwn
<1>1. L!Init => L!Inv BY LaunchInit
<1>2. L!Inv /\ [L!Next]_L!vars => L!Inv' BY LaunchNext
<1>3. L!Inv => L!ResultsAreOwn BY DEF L!Inv
<1> QED BY <1>1, <1>2, <1>3, PTL DEF L!Spec
=============================================================================
