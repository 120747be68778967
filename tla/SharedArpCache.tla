--------------------------- MODULE SharedArpCache ---------------------------
(***************************************************************************)
(* The ARP path of a multi-queue dpdk-net application.                     *)
(*                                                                         *)
(* RSS steers every ARP frame to queue 0.  Queue 0 scans the frames it     *)
(* receives (DpdkDevice::poll_rx) and publishes the replies in a           *)
(* SharedArpCache: an ArcSwap of an immutable map, and a version counter.  *)
(* Every other queue compares the version with the last one it has seen    *)
(* and, when it differs, injects one forged ARP reply per cache entry into *)
(* its own rx_batch (DpdkDevice::inject_from_shared_cache), from which     *)
(* smoltcp learns its neighbours.  Each queue runs on its own lcore: the   *)
(* steps interleave at the atomic operations on the shared cache.          *)
(***************************************************************************)
EXTENDS Naturals, Sequences, FiniteSets, SequencesExt

CONSTANTS
    Ips,           \* IPv4 addresses of the neighbours
    Macs,          \* their possible MAC addresses
    NoMac,         \* "no entry" in a map
    Data,          \* any frame that is not an ARP reply
    NumQueues,     \* RX/TX queue pairs, one lcore each
    RxCap,         \* capacity of rx_batch (64 in the code)
    MaxBurst,      \* most frames one rx burst brings
    MaxVersion,    \* bound: ARP replies that ever arrive
    MaxFailures    \* bound: calls of MemPool::try_alloc that return None

ASSUME QueuesAssumption == NumQueues \in Nat \ {0}
ASSUME IpsAssumption == IsFiniteSet(Ips)
ASSUME MaxVersionAssumption == MaxVersion \in Nat
ASSUME RxCapAssumption == RxCap \in Nat /\ MaxBurst \in Nat /\ MaxBurst <= RxCap
ASSUME NoMacAssumption == NoMac \notin Macs
ASSUME DataAssumption == Data \notin [ip : Ips, mac : Macs]
ASSUME FailuresAssumption == MaxFailures \in Nat

Queues == 0 .. NumQueues - 1

\* Queues that inject; queue 0 hears the replies from the wire.
Consumers == Queues \ {0}

\* What parse_arp_reply extracts from a reply and what
\* build_arp_reply_for_injection puts into one: the sender's addresses.
Arp == [ip : Ips, mac : Macs]

\* The HashMap<Ipv4Addr, MacAddress> behind the ArcSwap.
Maps == [Ips -> Macs \cup {NoMac}]

VARIABLES
    inner,               \* SharedArpCache::inner
    version,             \* SharedArpCache::version
    rx_batch,            \* per queue, DpdkDevice::rx_batch
    last_cache_version,  \* per queue, DpdkDevice::last_cache_version
    current_version,     \* per queue, the local of inject_from_shared_cache
    pc,                  \* per queue, where in receive() its lcore is
    scan,                \* queue 0: position of poll_rx's loop over rx_batch
    neighbor,            \* per queue, smoltcp's neighbour cache
    handed,              \* history: per queue, the last MAC injected per IP
    failures             \* history: allocations that failed so far

cache == <<inner, version>>
device == <<rx_batch, last_cache_version, current_version, pc, scan>>
history == <<handed, failures>>
vars == <<cache, device, neighbor, history>>

Init ==
    /\ inner = [ip \in Ips |-> NoMac]
    /\ version = 0
    /\ rx_batch = [q \in Queues |-> <<>>]
    /\ last_cache_version = [q \in Queues |-> 0]
    /\ current_version = [q \in Queues |-> 0]
    /\ pc = [q \in Queues |-> "idle"]
    /\ scan = 1
    /\ neighbor = [q \in Queues |-> [ip \in Ips |-> NoMac]]
    /\ handed = [q \in Queues |-> [ip \in Ips |-> NoMac]]
    /\ failures = 0

-----------------------------------------------------------------------------
(* receive(): the parts both kinds of queue share.                         *)

\* The frames one RxQueue::rx call may append to an empty rx_batch.
Bursts(frames) == UNION {[1 .. n -> frames] : n \in 0 .. MaxBurst}

\* rx_batch.pop() takes the frame pushed last and smoltcp processes it: a
\* reply overwrites the neighbour entry.
DeliverTop(q, batch) ==
    /\ rx_batch' = [rx_batch EXCEPT ![q] =
                        IF batch = <<>> THEN <<>> ELSE Front(batch)]
    /\ neighbor' = IF batch # <<>> /\ Last(batch) \in Arp
                   THEN [neighbor EXCEPT ![q][Last(batch).ip] = Last(batch).mac]
                   ELSE neighbor

-----------------------------------------------------------------------------
(* Queue 0: the single producer.                                           *)

\* A batch that still holds frames is drained before the NIC is polled.
DrainProducer ==
    /\ pc[0] = "idle"
    /\ rx_batch[0] # <<>>
    /\ DeliverTop(0, rx_batch[0])
    /\ UNCHANGED <<cache, last_cache_version, current_version, pc, scan, history>>

\* poll_rx on an empty batch takes a burst and scans it, front to back,
\* before the first frame is popped.
PollRx ==
    /\ pc[0] = "idle"
    /\ rx_batch[0] = <<>>
    /\ \E burst \in Bursts(Arp \cup {Data}) :
        /\ version + Cardinality({i \in DOMAIN burst : burst[i] # Data}) <= MaxVersion
        /\ rx_batch' = [rx_batch EXCEPT ![0] = burst]
    /\ pc' = [pc EXCEPT ![0] = "scan"]
    /\ UNCHANGED <<cache, last_cache_version, current_version, scan, neighbor, history>>

\* The frame the loop looks at.
Scanned == rx_batch[0][scan]
Scanning == pc[0] = "scan" /\ scan <= Len(rx_batch[0])

\* parse_arp_reply returns None.
SkipFrame ==
    /\ Scanning
    /\ Scanned = Data
    /\ scan' = scan + 1
    /\ UNCHANGED <<cache, rx_batch, last_cache_version, current_version, pc,
                   neighbor, history>>

\* SharedArpCache::insert of an entry already present: only the version.
InsertUnchanged ==
    /\ Scanning
    /\ Scanned # Data
    /\ inner[Scanned.ip] = Scanned.mac
    /\ version' = version + 1
    /\ scan' = scan + 1
    /\ UNCHANGED <<inner, rx_batch, last_cache_version, current_version, pc,
                   neighbor, history>>

\* insert of a new or changed entry: copy on write, published by the store.
InsertStore ==
    /\ Scanning
    /\ Scanned # Data
    /\ inner[Scanned.ip] # Scanned.mac
    /\ inner' = [inner EXCEPT ![Scanned.ip] = Scanned.mac]
    /\ pc' = [pc EXCEPT ![0] = "bump"]
    /\ UNCHANGED <<version, rx_batch, last_cache_version, current_version, scan,
                   neighbor, history>>

MutantStoreWithoutBump ==
    /\ pc[0] = "bump"
    /\ scan' = scan + 1
    /\ pc' = [pc EXCEPT ![0] = "scan"]
    /\ UNCHANGED <<inner, version, rx_batch, last_cache_version,
                   current_version, neighbor, history>>

\* ... and the version only after it.
InsertBump ==
    /\ pc[0] = "bump"
    /\ version' = version + 1
    /\ scan' = scan + 1
    /\ pc' = [pc EXCEPT ![0] = "scan"]
    /\ UNCHANGED <<inner, rx_batch, last_cache_version, current_version,
                   neighbor, history>>

\* The burst is scanned: receive() goes on to pop.
ScanDone ==
    /\ pc[0] = "scan"
    /\ scan > Len(rx_batch[0])
    /\ DeliverTop(0, rx_batch[0])
    /\ pc' = [pc EXCEPT ![0] = "idle"]
    /\ scan' = 1
    /\ UNCHANGED <<cache, last_cache_version, current_version, history>>

-----------------------------------------------------------------------------
(* The other queues: consumers.                                            *)

MutantNoEmptyCheck(q) == {rx_batch[q] \o burst : burst \in Bursts({Data})}

\* What poll_rx leaves in rx_batch: it polls only when that is empty.
PollRxOutcomes(q) ==
    IF rx_batch[q] = <<>> THEN Bursts({Data}) ELSE {rx_batch[q]}

\* Fast path of inject_from_shared_cache: nothing new, pop at once.
ReceiveUnchanged(q) ==
    /\ pc[q] = "idle"
    /\ version = last_cache_version[q]
    /\ \E batch \in PollRxOutcomes(q) : DeliverTop(q, batch)
    /\ UNCHANGED <<cache, last_cache_version, current_version, pc, scan, history>>

\* The version differs: it is remembered before the snapshot is taken.
ReadVersion(q) ==
    /\ pc[q] = "idle"
    /\ version # last_cache_version[q]
    /\ \E batch \in PollRxOutcomes(q) : rx_batch' = [rx_batch EXCEPT ![q] = batch]
    /\ current_version' = [current_version EXCEPT ![q] = version]
    /\ pc' = [pc EXCEPT ![q] = "inject"]
    /\ UNCHANGED <<cache, last_cache_version, scan, neighbor, history>>

\* One forged reply per entry of the snapshot, in the map's iteration order.
Entries == {[ip |-> ip, mac |-> inner[ip]] : ip \in {i \in Ips : inner[i] # NoMac}}
InjectionOrders == Bijection(1 .. Cardinality(Entries), Entries)

AllocFails == failures < MaxFailures

\* The loop may end after n of total pushes: all done, the batch full, or no
\* mbuf for the next one.
LoopEndsAfter(n, total, room) ==
    /\ n <= room
    /\ n = total \/ n = room \/ AllocFails

MutantNeverRecorded(q, n, total) == last_cache_version[q]

\* Only a complete pass records the version read before the snapshot; after
\* a failed injection the early return leaves the old one, for a retry.
RecordedVersion(q, n, total) ==
    IF n = total THEN current_version[q] ELSE last_cache_version[q]

\* The snapshot, the injection loop (n frames pushed), and receive()'s pop.
InjectAndPop(q) ==
    /\ pc[q] = "inject"
    /\ \E order \in InjectionOrders, n \in 0 .. Cardinality(Entries) :
        /\ LoopEndsAfter(n, Cardinality(Entries), RxCap - Len(rx_batch[q]))
        /\ failures' = IF n \in {Cardinality(Entries), RxCap - Len(rx_batch[q])}
                       THEN failures ELSE failures + 1
        /\ handed' = [handed EXCEPT ![q] = [ip \in Ips |->
               IF \E i \in 1 .. n : order[i].ip = ip
               THEN inner[ip] ELSE handed[q][ip]]]
        /\ last_cache_version' = [last_cache_version EXCEPT ![q] =
               RecordedVersion(q, n, Cardinality(Entries))]
        /\ DeliverTop(q, rx_batch[q] \o SubSeq(order, 1, n))
    /\ pc' = [pc EXCEPT ![q] = "idle"]
    /\ UNCHANGED <<cache, current_version, scan>>

-----------------------------------------------------------------------------

Producer ==
    \/ DrainProducer
    \/ PollRx
    \/ SkipFrame
    \/ InsertUnchanged
    \/ InsertStore
    \/ InsertBump
    \/ ScanDone

Consumer(q) ==
    \/ ReceiveUnchanged(q)
    \/ ReadVersion(q)
    \/ InjectAndPop(q)

Next == Producer \/ \E q \in Consumers : Consumer(q)

Spec == Init /\ [][Next]_vars

\* Every lcore polls its device in an endless loop (Reactor::run).
FairSpec == Spec /\ WF_vars(Producer) /\ \A q \in Consumers : WF_vars(Consumer(q))

-----------------------------------------------------------------------------

\* Types of the shared cache, of every device and of smoltcp's tables; rx_batch
\* never holds more than its ArrayVec can (push would panic).
TypeOK ==
    /\ inner \in Maps
    /\ version \in Nat
    /\ rx_batch \in [Queues -> Seq(Arp \cup {Data})]
    /\ \A q \in Queues : Len(rx_batch[q]) <= RxCap
    /\ last_cache_version \in [Queues -> Nat]
    /\ current_version \in [Queues -> Nat]
    /\ pc \in [Queues -> {"idle", "scan", "bump", "inject"}]
    /\ scan \in Nat \ {0}
    /\ neighbor \in [Queues -> Maps]
    /\ handed \in [Queues -> Maps]
    /\ failures \in Nat

\* A queue that has recorded the cache's version has been handed every entry
\* of the cache, with its current MAC: last_cache_version == version() is a
\* sound reason for inject_from_shared_cache to skip the snapshot.  (While
\* queue 0 stands between store and fetch_add the bump is still to come.)
UpToDateMeansHanded ==
    \A q \in Consumers :
        last_cache_version[q] = version /\ pc[0] # "bump" => handed[q] = inner

\* The inductive form of UpToDateMeansHanded: the version a queue holds on to
\* while it injects is one it has not recorded yet and one the cache has
\* reached, and nothing is handed out that the map does not hold.
Inductive ==
    /\ TypeOK
    /\ UpToDateMeansHanded
    /\ \A q \in Consumers :
        /\ last_cache_version[q] <= version
        /\ pc[q] = "inject" => /\ last_cache_version[q] < current_version[q]
                               /\ current_version[q] <= version
        /\ \A ip \in Ips : inner[ip] = NoMac => handed[q][ip] = NoMac

\* Once the wire is quiet no reply queue 0 published is missed for good: every
\* queue has been handed every entry, with its current MAC, and the smoltcp of
\* every queue can resolve the neighbours the cache knows.
Propagates ==
    <>[]/\ \A q \in Consumers : handed[q] = inner
        /\ \A q \in Queues, ip \in Ips : inner[ip] # NoMac => neighbor[q][ip] # NoMac

\* No queue keeps frames in rx_batch for ever: it is empty again and again,
\* so poll_rx goes back to the NIC again and again.
RxDrains == \A q \in Queues : []<>(rx_batch[q] = <<>>)
=============================================================================
