------------------------------- MODULE DpdkApp -------------------------------
(***************************************************************************)
(* The life of an application: Eal::init and its guard                     *)
(* (dpdk-net/src/api/rte/eal.rs), DpdkApp::run, which creates the mempool, *)
(* configures the port, launches run_worker on every lcore and takes all   *)
(* of it down again (dpdk-net-util/src/app.rs), with Lcore::launch and     *)
(* wait_all_workers (lcore.rs) and EthDevBuilder::build (eth.rs).          *)
(*                                                                         *)
(* Several threads may try to initialise the EAL; the one that succeeds is *)
(* the main lcore and calls run.  What the workers do is the subject of    *)
(* the other modules; here they use the port and the pool until they end.  *)
(***************************************************************************)
EXTENDS Naturals, Sequences, FiniteSets

CONSTANTS
    Lcores,     \* Lcore::all(), in order
    Main,       \* the main lcore
    Threads,    \* threads that call Eal::init
    RetaSizes   \* reta_size of the NICs considered

N == Len(Lcores)
Ids == {Lcores[i] : i \in 1..N}

ASSUME AppAssumption ==
    /\ Lcores \in Seq(Ids) /\ \A i, j \in 1..N : Lcores[i] = Lcores[j] => i = j
    /\ Main \in Ids /\ "run" \notin Ids /\ RetaSizes \subseteq Nat

VARIABLES
    EAL_INITIALIZED,
    rte,     \* DPDK itself: not yet initialised, up, or cleaned up for good
    pc,      \* where each thread is in Eal::init, run and the guard's drop
    phase,   \* how far DpdkApp::run has come
    next,    \* the loop that launches: index of the next lcore
    dev,     \* the port
    rx, tx,  \* its RX and TX queues that are set up
    reta_size, reta,  \* its redirection table, once written
    hash,    \* its RSS hash: off, with the driver's key, or with RSS_KEY_40
    pool,    \* the mempool
    refs,    \* who holds an Arc of it: run itself, workers
    lcore,   \* rte's state of each lcore; "other" is a function of somebody else
    worker,  \* run_worker on each lcore
    queue    \* its queue_id, N before it has one

eal  == <<EAL_INITIALIZED, rte, pc>>
port == <<dev, rx, tx, reta_size, reta, hash>>
mem  == <<pool, refs>>
work == <<lcore, worker, queue>>
vars == <<eal, phase, next, port, mem, work>>

Init ==
    /\ EAL_INITIALIZED = FALSE /\ rte = "never"
    /\ pc = [t \in Threads |-> "start"]
    /\ phase = "mempool" /\ next = 1
    /\ dev = "unconfigured" /\ rx = {} /\ tx = {}
    /\ reta_size \in RetaSizes /\ reta = <<>> /\ hash = "off"
    /\ pool = "none" /\ refs = {}
    /\ lcore \in {f \in [Ids -> {"wait", "other"}] : f[Main] = "wait"}
    /\ worker = [l \in Ids |-> "off"] /\ queue = [l \in Ids |-> N]

-----------------------------------------------------------------------------
(* Eal::init and Drop for Eal *)

Goto(t, place) == pc' = [pc EXCEPT ![t] = place]

\* Mutant of InitSwap: the flag is read in one step and set in another.
MutantLoadThenStore(t) ==
    /\ \/ /\ pc[t] = "start" /\ UNCHANGED EAL_INITIALIZED
          /\ Goto(t, IF EAL_INITIALIZED THEN "error" ELSE "failed")
       \/ pc[t] = "failed" /\ EAL_INITIALIZED' = TRUE /\ Goto(t, "init")
    /\ UNCHANGED <<rte, phase, next, port, mem, work>>

\* EAL_INITIALIZED.swap(true).
InitSwap(t) ==
    /\ pc[t] = "start" /\ EAL_INITIALIZED' = TRUE
    /\ Goto(t, IF EAL_INITIALIZED THEN "error" ELSE "init")
    /\ UNCHANGED <<rte, phase, next, port, mem, work>>

\* An argument with a null byte panics after the flag was set.
InitPanics(t) ==
    /\ pc[t] = "init" /\ Goto(t, "panicked")
    /\ UNCHANGED <<EAL_INITIALIZED, rte, phase, next, port, mem, work>>

\* rte_eal_init succeeds at most once in a process.
RteEalInit(t) ==
    /\ pc[t] = "init"
    /\ \/ rte = "never" /\ rte' = "up" /\ Goto(t, "app")
       \/ UNCHANGED rte /\ Goto(t, "failed")
    /\ UNCHANGED <<EAL_INITIALIZED, phase, next, port, mem, work>>

\* "Reset flag on failure so user can retry".
InitResets(t) ==
    /\ pc[t] = "failed" /\ EAL_INITIALIZED' = FALSE /\ Goto(t, "error")
    /\ UNCHANGED <<rte, phase, next, port, mem, work>>

Retry(t) ==
    /\ pc[t] = "error" /\ Goto(t, "start")
    /\ UNCHANGED <<EAL_INITIALIZED, rte, phase, next, port, mem, work>>

\* The guard goes after run has returned, or while its panic unwinds.
DropEal(t) ==
    /\ pc[t] = "app" /\ phase \in {"returned", "panicked"}
    /\ rte' = "cleaned" /\ Goto(t, "cleaned")
    /\ UNCHANGED <<EAL_INITIALIZED, phase, next, port, mem, work>>

DropStores(t) ==
    /\ pc[t] = "cleaned" /\ EAL_INITIALIZED' = FALSE /\ Goto(t, "done")
    /\ UNCHANGED <<rte, phase, next, port, mem, work>>

-----------------------------------------------------------------------------
(* DpdkApp::run, on the main lcore *)

Running == \E t \in Threads : pc[t] = "app"

\* Arcs are dropped; the last one frees the pool.
DropArcs(holders) ==
    /\ refs' = refs \ holders
    /\ pool' = IF refs # {} /\ refs \subseteq holders THEN "freed" ELSE pool

\* An expect() fails: run unwinds and drops its mempool.  EthDev has no drop.
Panic == phase' = "panicked" /\ DropArcs({"run"})

CreateMempool ==
    /\ Running /\ phase = "mempool"
    /\ \/ phase' = "build" /\ pool' = "alive" /\ refs' = {"run"}
       \/ Panic
    /\ UNCHANGED <<eal, next, port, work>>

\* configure_rss_reta: entries go round the queues.
Reta(size) == [e \in 0..size - 1 |-> e % N]

Queues == 0..N - 1

\* A step of EthDevBuilder::build goes on, or returns an error, on which run
\* panics; what was set up before stays as it is.
BuildStep(at, then, Change, same) ==
    /\ Running /\ phase = at
    /\ \/ phase' = then /\ Change /\ UNCHANGED <<same, mem>>
       \/ Panic /\ UNCHANGED port
    /\ UNCHANGED <<eal, next, work>>

\* EthConf asks for RSS where the port has a table and there are queues to
\* spread over; to_raw passes the hash on then, with the driver's own key.
WithRss == reta_size > 0 /\ N > 1

configure ==
    BuildStep("build", "rx",
              dev' = "configured" /\ hash' = IF WithRss THEN "driver" ELSE "off",
              <<rx, tx, reta_size, reta>>)

\* One turn of each loop over the queues.
rx_queue_setup ==
    LET q == Cardinality(rx)
    IN  BuildStep("rx", IF q = N - 1 THEN "tx" ELSE "rx", rx' = rx \cup {q},
                  <<dev, tx, reta_size, reta, hash>>)

tx_queue_setup ==
    LET q == Cardinality(tx)
        then == IF q < N - 1 THEN "tx" ELSE IF N > 1 THEN "reta" ELSE "start"
    IN  BuildStep("tx", then, tx' = tx \cup {q},
                  <<dev, rx, reta_size, reta, hash>>)

\* A table that cannot be written is only worth a warning, and so is a hash.
configure_rss_reta ==
    /\ Running /\ phase = "reta" /\ phase' = "hash"
    /\ reta' = Reta(reta_size) \/ UNCHANGED reta
    /\ UNCHANGED <<eal, next, dev, rx, tx, reta_size, hash, mem, work>>

update_rss_hash ==
    /\ Running /\ phase = "hash" /\ phase' = "start"
    /\ \/ WithRss /\ hash' = "RSS_KEY_40"
       \/ UNCHANGED hash
    /\ UNCHANGED <<eal, next, dev, rx, tx, reta_size, reta, mem, work>>

start ==
    BuildStep("start", "mac", dev' = "started", <<rx, tx, reta_size, reta, hash>>)

\* The port is started when its MAC address is read.
mac_addr == BuildStep("mac", "launch", TRUE, port)

Build ==
    \/ configure \/ rx_queue_setup \/ tx_queue_setup \/ configure_rss_reta
    \/ update_rss_hash \/ start \/ mac_addr

\* Mutant of QueueOf: main_queue_id keeps its initial 0.
MutantMainQueueZero(i) == IF Lcores[i] = Main THEN 0 ELSE i - 1

\* The queue of an lcore is its place in the enumeration, the main one included.
QueueOf(i) == i - 1

StartWorker(i) ==
    /\ worker' = [worker EXCEPT ![Lcores[i]] = "serving"]
    /\ queue' = [queue EXCEPT ![Lcores[i]] = QueueOf(i)]
    /\ lcore' = [lcore EXCEPT ![Lcores[i]] = IF Lcores[i] = Main THEN @ ELSE "running"]
    /\ refs' = refs \cup {Lcores[i]} /\ UNCHANGED pool

\* One turn of the loop: launch, which an lcore that is not waiting refuses;
\* launch drops the closure then, and with it its Arc.
Launch ==
    /\ Running /\ phase = "launch" /\ next <= N /\ Lcores[next] # Main
    /\ IF lcore[Lcores[next]] = "wait"
         THEN StartWorker(next) /\ next' = next + 1 /\ UNCHANGED phase
         ELSE Panic /\ UNCHANGED <<work, next>>
    /\ UNCHANGED <<eal, port>>

SkipMain ==
    /\ Running /\ phase = "launch" /\ next <= N /\ Lcores[next] = Main
    /\ next' = next + 1
    /\ UNCHANGED <<eal, phase, port, mem, work>>

\* After the loop the main lcore becomes a worker itself.
RunMain ==
    /\ Running /\ phase = "launch" /\ next = N + 1 /\ phase' = "main"
    /\ \E i \in 1..N : Lcores[i] = Main /\ StartWorker(i)
    /\ UNCHANGED <<eal, next, port>>

\* The server panics on the main lcore: its device and run unwind together.
MainPanics ==
    /\ phase = "main" /\ worker[Main] = "serving"
    /\ phase' = "panicked" /\ DropArcs({"run", Main})
    /\ worker' = [worker EXCEPT ![Main] = "finished"]
    /\ UNCHANGED <<eal, next, port, lcore, queue>>

MainReturns ==
    /\ phase = "main" /\ worker[Main] = "finished" /\ phase' = "wait"
    /\ UNCHANGED <<eal, next, port, mem, work>>

\* Mutant of WaitAllWorkers: run goes on at once.
MutantNoWait ==
    /\ phase = "wait" /\ phase' = "stop"
    /\ UNCHANGED <<eal, next, port, mem, work>>

\* rte_eal_mp_wait_lcore: every other lcore is waiting again.
WaitAllWorkers ==
    /\ phase = "wait" /\ \A l \in Ids \ {Main} : lcore[l] = "wait"
    /\ phase' = "stop"
    /\ UNCHANGED <<eal, next, port, mem, work>>

Stop ==
    /\ phase = "stop" /\ phase' = "close" /\ dev' = "stopped"
    /\ UNCHANGED <<eal, next, rx, tx, reta_size, reta, hash, mem, work>>

Close ==
    /\ phase = "close" /\ phase' = "drop" /\ dev' = "closed"
    /\ rx' = {} /\ tx' = {}
    /\ UNCHANGED <<eal, next, reta_size, reta, hash, mem, work>>

DropMempool ==
    /\ phase = "drop" /\ phase' = "returned" /\ DropArcs({"run"})
    /\ UNCHANGED <<eal, next, port, work>>

-----------------------------------------------------------------------------
(* run_worker, on any lcore *)

\* Mutant of ServerReturns: reactor_cancel is not set and reactor_task awaited.
MutantNoCancel(l) ==
    /\ worker[l] = "serving" /\ worker' = [worker EXCEPT ![l] = "awaiting"]
    /\ UNCHANGED <<eal, phase, next, port, mem, lcore, queue>>

\* server(ctx).await is over; the reactor is told to stop.
ServerReturns(l) ==
    /\ worker[l] = "serving" /\ worker' = [worker EXCEPT ![l] = "cancelled"]
    /\ UNCHANGED <<eal, phase, next, port, mem, lcore, queue>>

\* The reactor sees the flag and returns; the LocalSet goes and with it the
\* last handle of the device.  DpdkDevice's fields are dropped in order: the
\* Arc of the pool comes before the mbufs of the two batches.
ReactorEnds(l) ==
    /\ worker[l] = "cancelled" /\ worker' = [worker EXCEPT ![l] = "dropping"]
    /\ DropArcs({l})
    /\ UNCHANGED <<eal, phase, next, port, lcore, queue>>

DeviceDropped(l) ==
    /\ worker[l] = "dropping" /\ worker' = [worker EXCEPT ![l] = "finished"]
    /\ lcore' = [lcore EXCEPT ![l] = "wait"]
    /\ UNCHANGED <<eal, phase, next, port, mem, queue>>

\* What somebody else launched on an lcore ends.
OtherEnds(l) ==
    /\ lcore[l] = "other" /\ lcore' = [lcore EXCEPT ![l] = "wait"]
    /\ UNCHANGED <<eal, phase, next, port, mem, worker, queue>>

-----------------------------------------------------------------------------

Thread(t) ==
    \/ InitSwap(t) \/ InitPanics(t) \/ RteEalInit(t) \/ InitResets(t) \/ Retry(t)
    \/ DropEal(t) \/ DropStores(t)

Run ==
    \/ CreateMempool \/ Build \/ Launch \/ SkipMain \/ RunMain \/ MainReturns
    \/ WaitAllWorkers \/ Stop \/ Close \/ DropMempool

Worker(l) == ServerReturns(l) \/ ReactorEnds(l) \/ DeviceDropped(l)

Next ==
    \/ \E t \in Threads : Thread(t)
    \/ Run \/ MainPanics
    \/ \E l \in Ids : Worker(l) \/ OtherEnds(l)

Spec == Init /\ [][Next]_vars

\* The threads and lcores run, and every server returns in the end.
FairSpec == Spec /\ WF_vars(Run) /\ \A l \in Ids : WF_vars(Worker(l))

-----------------------------------------------------------------------------
(* Properties *)

\* Type invariant: every variable holds a value of its kind.
TypeOK ==
    /\ EAL_INITIALIZED \in BOOLEAN /\ rte \in {"never", "up", "cleaned"}
    /\ pc \in [Threads -> {"start", "init", "failed", "error", "panicked", "app",
                           "cleaned", "done"}]
    /\ phase \in {"mempool", "build", "rx", "tx", "reta", "hash", "start", "mac",
                  "launch", "main", "wait", "stop", "close", "drop", "returned",
                  "panicked"}
    /\ rx \subseteq Queues /\ tx \subseteq Queues /\ reta_size \in RetaSizes
    /\ hash \in {"off", "driver", "RSS_KEY_40"}
    /\ next \in 1..N + 1
    /\ dev \in {"unconfigured", "configured", "started", "stopped", "closed"}
    /\ pool \in {"none", "alive", "freed"} /\ refs \subseteq Ids \cup {"run"}
    /\ lcore \in [Ids -> {"wait", "other", "running"}]
    /\ worker \in [Ids -> {"off", "serving", "cancelled", "dropping", "finished"}]
    /\ queue \in [Ids -> 0..N]

\* One thread at a time initialises, uses or cleans up the EAL, and the flag is
\* set exactly while one does (or for ever after a panic inside Eal::init): a
\* failed init and a dropped guard leave it clear only when DPDK is idle again.
EalHasOneUser ==
    LET users == {t \in Threads : pc[t] \in {"init", "failed", "app", "cleaned"}}
    IN  /\ Cardinality(users) <= 1
        /\ EAL_INITIALIZED <=> (users # {} \/ \E t \in Threads : pc[t] = "panicked")

Quiet == \A l \in Ids : worker[l] \in {"off", "finished"}

\* Unless run panicked, the port is stopped and the EAL cleaned up only when no
\* worker uses them any more, and the pool is freed only after the port, whose
\* RX rings hold mbufs, was closed and the mbufs of every device went back, which
\* DpdkDevice drops after its own Arc of the pool (the order of app.rs:277-284).
TakenDownInOrder ==
    phase # "panicked" =>
        /\ dev \in {"stopped", "closed"} \/ rte = "cleaned" => Quiet
        /\ pool = "freed" => dev = "closed" /\ Quiet

\* Once all workers are launched every queue of the port is set up both ways
\* and has exactly one lcore that polls it, queue 0, the producer of the ARP
\* cache, included; a redirection table that was written gives every queue its
\* share, to within one entry ("evenly distribute traffic", eth.rs:558-560),
\* and packets are hashed when there is such a table.
EveryQueueServed ==
    LET share(q) == Cardinality({e \in DOMAIN reta : reta[e] = q})
    IN  phase \in {"main", "wait"} =>
            /\ rx = Queues /\ tx = Queues /\ dev = "started"
            /\ \A q \in Queues : Cardinality({l \in Ids : queue[l] = q}) = 1
            /\ \A p, q \in Queues : share(p) <= share(q) + 1
            /\ reta # <<>> => hash # "off"

\* Once the workers are launched and every server returns, run returns, unless
\* the main server panics (reactor_cancel, reactor_task.await, wait_all_workers).
RunReturns == (phase = "main") ~> (phase \in {"returned", "panicked"})
=============================================================================
