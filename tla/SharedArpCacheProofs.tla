------------------------ MODULE SharedArpCacheProofs ------------------------
(***************************************************************************)
(* Proofs about the shared ARP cache, for any number of queues, addresses, *)
(* batch sizes and ARP replies.                                            *)
(***************************************************************************)
EXTENDS SharedArpCache, FiniteSetTheorems, TLAPS

Frames == Arp \cup {Data}

\* The cache has finitely many entries, each of them an injectable reply.
LEMMA EntriesFinite ==
    ASSUME TypeOK
    PROVE  /\ Cardinality(Entries) \in Nat
           /\ Entries \subseteq Arp
<1> DEFINE Known == {i \in Ips : inner[i] # NoMac}
           reply == [ip \in Known |-> [ip |-> ip, mac |-> inner[ip]]]
<1>1. IsFiniteSet(Known)
    BY IpsAssumption, FS_Subset
<1>2. IsFiniteSet(Entries)
    <2>1. reply \in Surjection(Known, Entries)
        BY DEF Surjection, Entries
    <2> QED BY <1>1, <2>1, FS_Surjection
<1>3. Cardinality(Entries) \in Nat
    BY <1>2, FS_CardinalityType
<1>4. Entries \subseteq Arp
    BY DEF Entries, Arp, TypeOK, Maps
<1> QED BY <1>3, <1>4

\* Popping a frame leaves a typed, shorter batch and a typed neighbour table.
LEMMA DeliverTopType ==
    ASSUME TypeOK, NEW q \in Queues, NEW batch \in Seq(Frames),
           Len(batch) <= RxCap, DeliverTop(q, batch)
    PROVE  /\ rx_batch' \in [Queues -> Seq(Frames)]
           /\ \A r \in Queues : Len(rx_batch'[r]) <= RxCap
           /\ neighbor' \in [Queues -> Maps]
<1>1. CASE batch = <<>>
    BY <1>1, RxCapAssumption DEF DeliverTop, TypeOK, Frames
<1>2. CASE batch # <<>>
    <2>1. Front(batch) \in Seq(Frames) /\ Len(Front(batch)) <= RxCap
        BY <1>2, RxCapAssumption DEF Front
    <2>2. Last(batch) \in Frames
        BY <1>2 DEF Last
    <2>3. rx_batch' = [rx_batch EXCEPT ![q] = Front(batch)]
        BY <1>2 DEF DeliverTop
    <2>4. rx_batch' \in [Queues -> Seq(Frames)]
          /\ \A r \in Queues : Len(rx_batch'[r]) <= RxCap
        BY <2>1, <2>3 DEF TypeOK, Frames
    <2>5. neighbor' \in [Queues -> Maps]
        <3>1. CASE Last(batch) \in Arp
            BY <1>2, <3>1 DEF DeliverTop, TypeOK, Maps, Arp
        <3>2. CASE Last(batch) \notin Arp
            BY <1>2, <3>2 DEF DeliverTop, TypeOK
        <3> QED BY <3>1, <3>2
    <2> QED BY <2>4, <2>5
<1> QED BY <1>1, <1>2

\* A burst fits an rx_batch.
LEMMA BurstType ==
    ASSUME NEW F, NEW burst \in Bursts(F)
    PROVE  burst \in Seq(F) /\ Len(burst) <= RxCap
<1>1. PICK n \in 0 .. MaxBurst : burst \in [1 .. n -> F]
    BY DEF Bursts
<1>2. n \in Nat /\ n <= RxCap
    BY <1>1, RxCapAssumption
<1>3. burst \in Seq(F)
    BY <1>1, <1>2, SMT
<1>4. Len(burst) = n
    BY <1>1, <1>2, SMT
<1> QED BY <1>2, <1>3, <1>4

\* What poll_rx leaves in a consumer's batch fits it.
LEMMA PollRxOutcomesType ==
    ASSUME TypeOK, NEW q \in Queues, NEW batch \in PollRxOutcomes(q)
    PROVE  batch \in Seq(Frames) /\ Len(batch) <= RxCap
<1>1. CASE rx_batch[q] = <<>>
    <2>1. batch \in Bursts({Data})
        BY <1>1 DEF PollRxOutcomes
    <2>2. batch \in Seq({Data}) /\ Len(batch) <= RxCap
        BY <2>1, BurstType
    <2> QED BY <2>2 DEF Frames
<1>2. CASE rx_batch[q] # <<>>
    BY <1>2 DEF PollRxOutcomes, TypeOK, Frames
<1> QED BY <1>1, <1>2

\* The frame poll_rx scans, when it is not Data, is a reply.
LEMMA ScannedType ==
    ASSUME TypeOK, Scanning, Scanned # Data
    PROVE  Scanned \in Arp /\ Scanned.ip \in Ips /\ Scanned.mac \in Macs
BY QueuesAssumption DEF TypeOK, Scanning, Scanned, Arp, Queues

\* A prefix of an injection order is a sequence of replies of its length.
LEMMA InjectionType ==
    ASSUME TypeOK, NEW order \in InjectionOrders,
           NEW n \in 0 .. Cardinality(Entries)
    PROVE  /\ order \in [1 .. Cardinality(Entries) -> Entries]
           /\ SubSeq(order, 1, n) \in Seq(Frames)
           /\ Len(SubSeq(order, 1, n)) = n
<1>1. Cardinality(Entries) \in Nat /\ Entries \subseteq Frames
    BY EntriesFinite DEF Frames
<1>2. order \in [1 .. Cardinality(Entries) -> Entries]
    BY DEF InjectionOrders, Bijection, Injection
<1>3. order \in Seq(Frames) /\ Len(order) = Cardinality(Entries)
    BY <1>1, <1>2
<1> QED BY <1>1, <1>2, <1>3

-----------------------------------------------------------------------------

\* Every step keeps the types and the capacity of rx_batch.
LEMMA TypeStep == TypeOK /\ [Next]_vars => TypeOK'
<1> SUFFICES ASSUME TypeOK, [Next]_vars PROVE TypeOK'
    OBVIOUS
<1> USE DEF Frames, history
<1>0. 0 \in Queues
    BY QueuesAssumption DEF Queues
<1>1. CASE DrainProducer
    <2>1. rx_batch[0] \in Seq(Frames) /\ Len(rx_batch[0]) <= RxCap
        BY <1>0 DEF TypeOK
    <2>2. DeliverTop(0, rx_batch[0])
        BY <1>1 DEF DrainProducer
    <2>3. QED
        BY <1>0, <1>1, <2>1, <2>2, DeliverTopType DEF DrainProducer, TypeOK, cache
<1>2. CASE PollRx
    <2>1. PICK burst \in Bursts(Frames) : rx_batch' = [rx_batch EXCEPT ![0] = burst]
        BY <1>2 DEF PollRx
    <2>2. burst \in Seq(Frames) /\ Len(burst) <= RxCap
        BY BurstType
    <2> QED BY <1>0, <1>2, <2>1, <2>2 DEF PollRx, TypeOK, cache
<1>3. CASE SkipFrame
    BY <1>3 DEF SkipFrame, TypeOK, cache
<1>4. CASE InsertUnchanged
    BY <1>4 DEF InsertUnchanged, TypeOK
<1>5. CASE InsertStore
    <2>1. Scanned.ip \in Ips /\ Scanned.mac \in Macs
        BY <1>5, ScannedType DEF InsertStore
    <2>2. inner' \in Maps
        BY <1>5, <2>1 DEF InsertStore, TypeOK, Maps
    <2> QED BY <1>5, <2>2 DEF InsertStore, TypeOK
<1>6. CASE InsertBump
    <2>1. version' \in Nat /\ scan' \in Nat \ {0}
        BY <1>6 DEF InsertBump, TypeOK
    <2>2. pc' \in [Queues -> {"idle", "scan", "bump", "inject"}]
        BY <1>6 DEF InsertBump, TypeOK
    <2> QED BY <1>6, <2>1, <2>2 DEF InsertBump, TypeOK
<1>7. CASE ScanDone
    <2>1. rx_batch[0] \in Seq(Frames) /\ Len(rx_batch[0]) <= RxCap
        BY <1>0 DEF TypeOK
    <2>2. DeliverTop(0, rx_batch[0])
        BY <1>7 DEF ScanDone
    <2> QED BY <1>0, <1>7, <2>1, <2>2, DeliverTopType DEF ScanDone, TypeOK, cache
<1>8. ASSUME NEW q \in Consumers, ReceiveUnchanged(q) PROVE TypeOK'
    <2>1. PICK batch \in PollRxOutcomes(q) : DeliverTop(q, batch)
        BY <1>8 DEF ReceiveUnchanged
    <2>2. q \in Queues
        BY DEF Consumers
    <2>3. batch \in Seq(Frames) /\ Len(batch) <= RxCap
        BY <2>2, PollRxOutcomesType
    <2> QED BY <1>8, <2>1, <2>2, <2>3, DeliverTopType DEF ReceiveUnchanged, TypeOK, cache
<1>9. ASSUME NEW q \in Consumers, ReadVersion(q) PROVE TypeOK'
    <2>1. PICK batch \in PollRxOutcomes(q) : rx_batch' = [rx_batch EXCEPT ![q] = batch]
        BY <1>9 DEF ReadVersion
    <2>2. q \in Queues
        BY DEF Consumers
    <2>3. batch \in Seq(Frames) /\ Len(batch) <= RxCap
        BY <2>2, PollRxOutcomesType
    <2> QED BY <1>9, <2>1, <2>2, <2>3 DEF ReadVersion, TypeOK, cache
<1>10. ASSUME NEW q \in Consumers, InjectAndPop(q) PROVE TypeOK'
    <2>0. q \in Queues
        BY DEF Consumers
    <2>1. PICK order \in InjectionOrders, n \in 0 .. Cardinality(Entries) :
            /\ LoopEndsAfter(n, Cardinality(Entries), RxCap - Len(rx_batch[q]))
            /\ failures' = IF n \in {Cardinality(Entries), RxCap - Len(rx_batch[q])}
                           THEN failures ELSE failures + 1
            /\ handed' = [handed EXCEPT ![q] = [ip \in Ips |->
                   IF \E i \in 1 .. n : order[i].ip = ip
                   THEN inner[ip] ELSE handed[q][ip]]]
            /\ last_cache_version' = [last_cache_version EXCEPT ![q] =
                   RecordedVersion(q, n, Cardinality(Entries))]
            /\ DeliverTop(q, rx_batch[q] \o SubSeq(order, 1, n))
        BY <1>10 DEF InjectAndPop
    <2> DEFINE pushed == SubSeq(order, 1, n)
    <2>2. pushed \in Seq(Frames) /\ Len(pushed) = n /\ n \in Nat
        BY EntriesFinite, InjectionType
    <2>3. rx_batch[q] \in Seq(Frames) /\ Len(rx_batch[q]) <= RxCap
        BY <2>0 DEF TypeOK
    <2>4. rx_batch[q] \o pushed \in Seq(Frames) /\ Len(rx_batch[q] \o pushed) <= RxCap
        <3> HIDE DEF pushed
        <3> QED BY <2>1, <2>2, <2>3, RxCapAssumption DEF LoopEndsAfter
    <2>5. /\ rx_batch' \in [Queues -> Seq(Frames)]
          /\ \A r \in Queues : Len(rx_batch'[r]) <= RxCap
          /\ neighbor' \in [Queues -> Maps]
        <3>1. DeliverTop(q, rx_batch[q] \o pushed)
            BY <2>1
        <3> HIDE DEF pushed
        <3> QED BY <2>0, <2>4, <3>1, DeliverTopType
    <2>6. handed' \in [Queues -> Maps]
        BY <2>0, <2>1 DEF TypeOK, Maps
    <2>7. last_cache_version' \in [Queues -> Nat]
        BY <2>0, <2>1 DEF TypeOK, RecordedVersion
    <2>8. failures' \in Nat
        BY <2>1 DEF TypeOK
    <2> QED BY <1>10, <2>0, <2>5, <2>6, <2>7, <2>8 DEF InjectAndPop, TypeOK, cache
<1>11. CASE UNCHANGED vars
    BY <1>11 DEF vars, cache, device, TypeOK
<1> QED
    BY <1>1, <1>2, <1>3, <1>4, <1>5, <1>6, <1>7, <1>8, <1>9, <1>10, <1>11
       DEF Next, Producer, Consumer

\* Every reachable state of the shared ARP cache and of the devices around it
\* is well typed; in particular no push overflows an rx_batch.
THEOREM TypeCorrect == Spec => []TypeOK
<1>1. Init => TypeOK
    BY QueuesAssumption, RxCapAssumption DEF Init, TypeOK, Maps, Queues
<1>2. QED BY <1>1, TypeStep, PTL DEF Spec

-----------------------------------------------------------------------------

\* A complete injection pass hands out the whole map.
LEMMA CompletePass ==
    ASSUME Inductive, NEW q \in Consumers, NEW order \in InjectionOrders,
           NEW ip \in Ips
    PROVE  (IF \E i \in 1 .. Cardinality(Entries) : order[i].ip = ip
            THEN inner[ip] ELSE handed[q][ip]) = inner[ip]
<1>1. CASE inner[ip] = NoMac
    BY <1>1 DEF Inductive
<1>2. CASE inner[ip] # NoMac
    <2>1. [ip |-> ip, mac |-> inner[ip]] \in Entries
        BY <1>2 DEF Entries
    <2>2. \E i \in 1 .. Cardinality(Entries) : order[i] = [ip |-> ip, mac |-> inner[ip]]
        BY <2>1 DEF InjectionOrders, Bijection, Surjection
    <2> QED BY <2>2
<1> QED BY <1>1, <1>2

\* Every step keeps versions and handed entries in line with the cache.
LEMMA InductiveStep == Inductive /\ [Next]_vars => Inductive'
<1> SUFFICES ASSUME Inductive, [Next]_vars PROVE Inductive'
    OBVIOUS
<1> USE DEF history
<1>0. TypeOK /\ TypeOK' /\ 0 \in Queues /\ Consumers \subseteq Queues /\ 0 \notin Consumers
    BY TypeStep, QueuesAssumption DEF Inductive, Queues, Consumers
<1>a. version \in Nat /\ version < version + 1
    BY <1>0 DEF TypeOK
<1> DEFINE Parts(c) ==
        /\ last_cache_version[c] = version /\ pc[0] # "bump" => handed[c] = inner
        /\ last_cache_version[c] <= version
        /\ pc[c] = "inject" => /\ last_cache_version[c] < current_version[c]
                               /\ current_version[c] <= version
        /\ \A ip \in Ips : inner[ip] = NoMac => handed[c][ip] = NoMac
<1>b. \A c \in Consumers : Parts(c)
    BY DEF Inductive, UpToDateMeansHanded
<1>c. SUFFICES ASSUME NEW c \in Consumers PROVE Parts(c)'
    BY <1>0 DEF Inductive, UpToDateMeansHanded
<1>d. c \in Queues /\ c # 0 /\ Parts(c)
    BY <1>0, <1>b
<1>e. last_cache_version[c] \in Nat /\ current_version[c] \in Nat
    BY <1>0, <1>d DEF TypeOK
<1>1. CASE DrainProducer
    BY <1>1, <1>d DEF DrainProducer, cache
<1>2. CASE PollRx
    BY <1>0, <1>2, <1>d DEF PollRx, cache, TypeOK
<1>3. CASE SkipFrame
    BY <1>3, <1>d DEF SkipFrame, cache
<1>4. CASE InsertUnchanged
    BY <1>4, <1>a, <1>d, <1>e DEF InsertUnchanged
<1>5. CASE InsertStore
    <2>1. pc'[0] = "bump" /\ pc'[c] = pc[c]
        BY <1>0, <1>5, <1>d DEF InsertStore, TypeOK
    <2>2. Scanned.ip \in Ips /\ Scanned.mac \in Macs
        BY <1>0, <1>5, ScannedType DEF InsertStore
    <2>3. \A ip \in Ips : inner'[ip] = NoMac => inner[ip] = NoMac
        BY <1>0, <1>5, <2>2, NoMacAssumption DEF InsertStore, TypeOK, Maps
    <2> QED BY <1>5, <1>d, <2>1, <2>3 DEF InsertStore
<1>6. CASE InsertBump
    <2>1. pc'[c] = pc[c]
        BY <1>0, <1>6, <1>d DEF InsertBump, TypeOK
    <2> QED BY <1>6, <1>a, <1>d, <1>e, <2>1 DEF InsertBump
<1>7. CASE ScanDone
    <2>1. pc'[c] = pc[c] /\ pc[0] # "bump"
        BY <1>0, <1>7, <1>d DEF ScanDone, TypeOK
    <2> QED BY <1>7, <1>d, <2>1 DEF ScanDone, cache
<1>8. ASSUME NEW q \in Consumers, ReceiveUnchanged(q) PROVE Parts(c)'
    BY <1>8, <1>d DEF ReceiveUnchanged, cache
<1>9. ASSUME NEW q \in Consumers, ReadVersion(q) PROVE Parts(c)'
    <2>1. pc'[0] = pc[0]
        BY <1>0, <1>9 DEF ReadVersion, TypeOK
    <2>2. CASE c = q
        BY <1>0, <1>9, <1>a, <1>d, <1>e, <2>1, <2>2 DEF ReadVersion, cache, TypeOK
    <2>3. CASE c # q
        BY <1>0, <1>9, <1>d, <2>1, <2>3 DEF ReadVersion, cache, TypeOK
    <2> QED BY <2>2, <2>3
<1>10. ASSUME NEW q \in Consumers, InjectAndPop(q) PROVE Parts(c)'
    <2>1. PICK order \in InjectionOrders, n \in 0 .. Cardinality(Entries) :
            /\ handed' = [handed EXCEPT ![q] = [ip \in Ips |->
                   IF \E i \in 1 .. n : order[i].ip = ip
                   THEN inner[ip] ELSE handed[q][ip]]]
            /\ last_cache_version' = [last_cache_version EXCEPT ![q] =
                   RecordedVersion(q, n, Cardinality(Entries))]
        BY <1>10 DEF InjectAndPop
    <2>2. /\ pc' = [pc EXCEPT ![q] = "idle"] /\ pc[q] = "inject"
          /\ UNCHANGED <<inner, version, current_version>>
        BY <1>10 DEF InjectAndPop, cache
    <2>3. pc'[0] = pc[0]
        BY <1>0, <2>2 DEF TypeOK
    <2>4. CASE c # q
        BY <1>0, <1>d, <2>1, <2>2, <2>3, <2>4 DEF TypeOK
    <2>5. CASE c = q
        <3>1. pc'[c] = "idle"
            BY <1>0, <1>d, <2>2, <2>5 DEF TypeOK
        <3>2. handed'[c] = [ip \in Ips |->
                   IF \E i \in 1 .. n : order[i].ip = ip
                   THEN inner[ip] ELSE handed[c][ip]]
            BY <1>0, <1>d, <2>1, <2>5 DEF TypeOK
        <3>3. \A ip \in Ips : inner'[ip] = NoMac => handed'[c][ip] = NoMac
            BY <1>d, <2>2, <3>2
        <3>4. CASE n = Cardinality(Entries)
            <4>1. last_cache_version'[c] = current_version[c]
                BY <1>0, <1>d, <2>1, <2>5, <3>4 DEF TypeOK, RecordedVersion
            <4>2. handed'[c] = inner
                <5>1. inner = [ip \in Ips |-> inner[ip]]
                    BY <1>0 DEF TypeOK, Maps
                <5>2. \A ip \in Ips : handed'[c][ip] = inner[ip]
                    BY <3>2, <3>4, CompletePass
                <5> QED BY <3>2, <5>1, <5>2
            <4> QED BY <1>d, <1>e, <2>2, <2>5, <3>1, <3>3, <4>1, <4>2
        <3>5. CASE n # Cardinality(Entries)
            <4>1. last_cache_version'[c] = last_cache_version[c]
                BY <1>0, <1>d, <2>1, <2>5, <3>5 DEF TypeOK, RecordedVersion
            <4>2. last_cache_version[c] < version
                BY <1>a, <1>d, <1>e, <2>2, <2>5
            <4> QED BY <1>a, <1>d, <1>e, <2>2, <3>1, <3>3, <4>1, <4>2
        <3> QED BY <3>4, <3>5
    <2> QED BY <2>4, <2>5
<1>11. CASE UNCHANGED vars
    BY <1>11, <1>d DEF vars, cache, device
<1> QED
    BY <1>1, <1>2, <1>3, <1>4, <1>5, <1>6, <1>7, <1>8, <1>9, <1>10, <1>11
       DEF Next, Producer, Consumer

\* The version check of inject_from_shared_cache is sound, however the steps of
\* queue 0 and of the other queues interleave: a queue whose
\* last_cache_version equals the cache's version has been handed every entry
\* with its current MAC.  It rests on insert() storing the map before it bumps
\* the version, and on the reader loading the version before the snapshot.
THEOREM UpToDateQueuesMissNothing == Spec => []UpToDateMeansHanded
<1>1. Init => Inductive
    <2>1. Init => TypeOK
        BY QueuesAssumption, RxCapAssumption DEF Init, TypeOK, Maps, Queues
    <2> QED BY <2>1 DEF Init, Inductive, UpToDateMeansHanded, Consumers
<1>2. Inductive => UpToDateMeansHanded
    BY DEF Inductive
<1>3. QED BY <1>1, <1>2, InductiveStep, PTL DEF Spec

-----------------------------------------------------------------------------
(* From the cache to the neighbour tables.                                 *)

\* A reply for ip is among the frames of batch.
InBatch(batch, ip) == \E i \in 1 .. Len(batch) : batch[i] \in Arp /\ batch[i].ip = ip

\* smoltcp of queue q resolves ip, or will once its batch is drained.
Learns(q, ip) == neighbor[q][ip] # NoMac \/ InBatch(rx_batch[q], ip)

\* Nothing is lost between the cache and smoltcp: what a consumer was handed
\* and what queue 0 published is learnt, or in the batch.
NothingLost ==
    \A ip \in Ips :
        /\ \A q \in Consumers : handed[q][ip] # NoMac => Learns(q, ip)
        /\ inner[ip] # NoMac => Learns(0, ip)

\* The frames of queue 0's batch that poll_rx has published.
Published(i) ==
    \/ pc[0] = "idle"
    \/ pc[0] = "scan" /\ i < scan
    \/ pc[0] = "bump" /\ i <= scan

\* Nothing is made up: every queue learns only what queue 0 published, and
\* queue 0 publishes a reply before smoltcp can pop it.
NothingInvented ==
    /\ \A q \in Consumers, ip \in Ips : Learns(q, ip) => inner[ip] # NoMac
    /\ \A ip \in Ips : neighbor[0][ip] # NoMac => inner[ip] # NoMac
    /\ \A i \in 1 .. Len(rx_batch[0]) :
          Published(i) /\ rx_batch[0][i] \in Arp => inner[rx_batch[0][i].ip] # NoMac

\* Where poll_rx of queue 0 is; the loop starts at the first frame.
ScanInPlace ==
    /\ pc[0] \in {"idle", "scan", "bump"}
    /\ pc[0] = "idle" => scan = 1
    /\ pc[0] = "bump" => scan <= Len(rx_batch[0])

\* Popping the last frame of batch neither loses nor invents a reply: smoltcp
\* has learnt it, or it still waits.
LEMMA PopLearns ==
    ASSUME TypeOK, NEW q \in Queues, NEW batch \in Seq(Frames), DeliverTop(q, batch)
    PROVE  /\ \A r \in Queues : r # q => rx_batch'[r] = rx_batch[r] /\ neighbor'[r] = neighbor[r]
           /\ \A ip \in Ips : Learns(q, ip)' <=> neighbor[q][ip] # NoMac \/ InBatch(batch, ip)
           /\ \A i \in 1 .. Len(rx_batch'[q]) : i \in 1 .. Len(batch) /\ rx_batch'[q][i] = batch[i]
<1>1. CASE batch = <<>>
    BY <1>1 DEF DeliverTop, TypeOK, Learns, InBatch
<1>2. CASE batch # <<>>
    <2> DEFINE n == Len(batch)
    <2>1. n \in Nat \ {0} /\ n \in 1 .. n /\ Last(batch) = batch[n] /\ batch[n] \in Frames
        BY <1>2 DEF Last
    <2>2. rx_batch'[q] = Front(batch) /\ \A r \in Queues : r # q => rx_batch'[r] = rx_batch[r]
        BY <1>2 DEF DeliverTop, TypeOK
    <2>3. Len(Front(batch)) = n - 1 /\ \A i \in 1 .. n - 1 : Front(batch)[i] = batch[i]
        <3>1. PICK k \in 0 .. n : k = n - 1
            <4>1. \A m \in Nat \ {0} : m - 1 \in 0 .. m
                OBVIOUS
            <4>2. n - 1 \in 0 .. n
                BY <2>1, <4>1
            <4> QED BY <4>2
        <3>2. Front(batch) = SubSeq(batch, 1, k)
            BY <3>1 DEF Front
        <3>3. Len(SubSeq(batch, 1, k)) = k /\ \A i \in 1 .. k : SubSeq(batch, 1, k)[i] = batch[i]
            OBVIOUS
        <3> QED BY <3>1, <3>2, <3>3
    <2>4. /\ \A r \in Queues : r # q => neighbor'[r] = neighbor[r]
          /\ batch[n] \in Arp =>
                \A ip \in Ips : neighbor'[q][ip] = IF ip = batch[n].ip THEN batch[n].mac
                                                   ELSE neighbor[q][ip]
          /\ batch[n] \notin Arp => neighbor' = neighbor
        BY <1>2, <2>1 DEF DeliverTop, TypeOK, Maps, Arp
    <2>5. batch[n] \in Arp => batch[n].ip \in Ips /\ batch[n].mac # NoMac
        BY NoMacAssumption DEF Arp
    <2>6. \A i \in 1 .. Len(rx_batch'[q]) : i \in 1 .. n /\ rx_batch'[q][i] = batch[i]
        BY <2>1, <2>2, <2>3
    <2>7. \A i \in 1 .. n : i = n \/ (i \in 1 .. Len(rx_batch'[q]) /\ rx_batch'[q][i] = batch[i])
        BY <2>1, <2>2, <2>3
    <2>8. ASSUME NEW ip \in Ips
          PROVE  Learns(q, ip)' <=> neighbor[q][ip] # NoMac \/ InBatch(batch, ip)
        <3>1. neighbor'[q][ip] # NoMac <=>
                 neighbor[q][ip] # NoMac \/ (batch[n] \in Arp /\ batch[n].ip = ip)
            BY <2>4, <2>5
        <3>2. InBatch(batch, ip) <=>
                 InBatch(rx_batch'[q], ip) \/ (batch[n] \in Arp /\ batch[n].ip = ip)
            BY <2>1, <2>6, <2>7 DEF InBatch
        <3> QED BY <3>1, <3>2 DEF Learns
    <2> QED BY <2>2, <2>4, <2>6, <2>8
<1> QED BY <1>1, <1>2

\* poll_rx of a consumer brings no reply, and takes none away.
LEMMA PollBringsNoReply ==
    ASSUME TypeOK, NEW q \in Queues, NEW batch \in PollRxOutcomes(q), NEW ip \in Ips
    PROVE  InBatch(batch, ip) <=> InBatch(rx_batch[q], ip)
<1>1. CASE rx_batch[q] = <<>>
    <2>1. batch \in Seq({Data})
        BY <1>1, BurstType DEF PollRxOutcomes
    <2>2. \A i \in 1 .. Len(batch) : batch[i] \notin Arp
        BY <2>1, DataAssumption DEF Arp
    <2> QED BY <1>1, <2>2 DEF InBatch
<1>2. CASE rx_batch[q] # <<>>
    BY <1>2 DEF PollRxOutcomes
<1> QED BY <1>1, <1>2

\* After an injection pass the batch holds the replies it held and one for
\* every entry that was pushed.
LEMMA PassBringsReplies ==
    ASSUME TypeOK, NEW q \in Queues, NEW order \in InjectionOrders,
           NEW n \in 0 .. Cardinality(Entries), NEW ip \in Ips
    PROVE  /\ InBatch(rx_batch[q] \o SubSeq(order, 1, n), ip) <=>
                 InBatch(rx_batch[q], ip) \/ \E i \in 1 .. n : order[i].ip = ip
           /\ (\E i \in 1 .. n : order[i].ip = ip) => inner[ip] # NoMac
<1> DEFINE pushed == SubSeq(order, 1, n)
           held == rx_batch[q]
<1>1. /\ order \in [1 .. Cardinality(Entries) -> Entries] /\ pushed \in Seq(Frames)
      /\ Len(pushed) = n /\ n \in Nat /\ Cardinality(Entries) \in Nat /\ Entries \subseteq Arp
      /\ held \in Seq(Frames)
    BY EntriesFinite, InjectionType DEF TypeOK, Frames
<1>2. \A i \in 1 .. n : pushed[i] = order[i] /\ order[i] \in Entries
    BY <1>1
<1>3. \A i \in 1 .. n : order[i] \in Arp /\ (order[i].ip = ip => inner[ip] # NoMac)
    BY <1>1, <1>2 DEF Entries
<1>4. /\ Len(held \o pushed) = Len(held) + n /\ Len(held) \in Nat
      /\ \A i \in 1 .. Len(held) : (held \o pushed)[i] = held[i]
      /\ \A i \in 1 .. n : (held \o pushed)[Len(held) + i] = pushed[i]
    <2> HIDE DEF pushed, held
    <2> QED BY <1>1
<1> DEFINE all == held \o pushed
<1>5. /\ Len(all) = Len(held) + n /\ Len(held) \in Nat /\ n \in Nat
      /\ \A i \in 1 .. Len(held) : all[i] = held[i]
      /\ \A i \in 1 .. n : all[Len(held) + i] = order[i] /\ order[i] \in Arp
    BY <1>1, <1>2, <1>3, <1>4
<1> HIDE DEF all, held, pushed
<1>6. ASSUME InBatch(all, ip) PROVE InBatch(held, ip) \/ \E i \in 1 .. n : order[i].ip = ip
    <2>1. PICK i \in 1 .. Len(all) : all[i] \in Arp /\ all[i].ip = ip
        BY <1>6 DEF InBatch
    <2>2. CASE i <= Len(held)
        <3>1. i \in 1 .. Len(held)
            BY <1>5, <2>2
        <3> QED BY <1>5, <2>1, <3>1 DEF InBatch
    <2>3. CASE i > Len(held)
        <3>1. PICK j \in 1 .. n : i = Len(held) + j
            <4>1. i - Len(held) \in 1 .. n /\ i = Len(held) + (i - Len(held))
                BY <1>5, <2>3
            <4> QED BY <4>1
        <3> QED BY <1>5, <2>1, <3>1
    <2> QED BY <1>5, <2>2, <2>3
<1>7. ASSUME InBatch(held, ip) PROVE InBatch(all, ip)
    <2>1. \A i \in 1 .. Len(held) : i \in 1 .. Len(all)
        BY <1>5
    <2> QED BY <1>5, <1>7, <2>1 DEF InBatch
<1>8. ASSUME NEW i \in 1 .. n, order[i].ip = ip PROVE InBatch(all, ip)
    <2>1. Len(held) + i \in 1 .. Len(all)
        BY <1>5
    <2> QED BY <1>5, <1>8, <2>1 DEF InBatch
<1> QED BY <1>3, <1>6, <1>7, <1>8 DEF all, held, pushed

\* What the theorem below rests on.
Resolution == Inductive /\ ScanInPlace /\ NothingLost /\ NothingInvented

\* A step that touches the batch or the table of one queue only, and neither
\* the cache nor what was handed out, keeps what the other queues learn.
LEMMA OthersLearn ==
    ASSUME NEW r \in Queues, NEW ip \in Ips,
           rx_batch'[r] = rx_batch[r], neighbor'[r] = neighbor[r]
    PROVE  Learns(r, ip)' <=> Learns(r, ip)
BY DEF Learns

\* Every step keeps what was published on its way to every queue.
LEMMA ResolutionStep == Resolution /\ [Next]_vars => Resolution'
<1> SUFFICES ASSUME Resolution, [Next]_vars PROVE Resolution'
    OBVIOUS
<1> USE DEF history
<1>0. /\ Inductive /\ Inductive' /\ TypeOK /\ TypeOK' /\ 0 \in Queues
      /\ Consumers \subseteq Queues /\ 0 \notin Consumers
      /\ ScanInPlace /\ NothingLost /\ NothingInvented
    BY InductiveStep, QueuesAssumption DEF Resolution, Inductive, Queues, Consumers
<1> SUFFICES ScanInPlace' /\ NothingLost' /\ NothingInvented'
    BY <1>0 DEF Resolution
<1>a. rx_batch[0] \in Seq(Frames) /\ scan \in Nat \ {0} /\ Len(rx_batch[0]) \in Nat
    BY <1>0 DEF TypeOK, Frames
<1>1. CASE DrainProducer
    <2>1. /\ DeliverTop(0, rx_batch[0]) /\ pc[0] = "idle"
          /\ UNCHANGED <<inner, handed, pc, scan>>
        BY <1>1 DEF DrainProducer, cache
    <2>2. /\ \A r \in Queues : r # 0 => rx_batch'[r] = rx_batch[r] /\ neighbor'[r] = neighbor[r]
          /\ \A ip \in Ips : Learns(0, ip)' <=> Learns(0, ip)
          /\ \A i \in 1 .. Len(rx_batch'[0]) : i \in 1 .. Len(rx_batch[0]) /\ rx_batch'[0][i] = rx_batch[0][i]
        BY <1>0, <1>a, <2>1, PopLearns DEF Learns
    <2>3. ScanInPlace'
        BY <1>0, <2>1 DEF ScanInPlace
    <2>4. \A q \in Consumers, ip \in Ips : Learns(q, ip)' <=> Learns(q, ip)
        BY <1>0, <2>2, OthersLearn
    <2>5. \A ip \in Ips : Learns(0, ip) => inner[ip] # NoMac
        BY <1>0, <2>1 DEF Learns, InBatch, NothingInvented, Published
    <2>6. NothingInvented'
        BY <1>0, <2>1, <2>2, <2>4, <2>5 DEF NothingInvented, Published, Learns
    <2> QED BY <1>0, <2>1, <2>2, <2>3, <2>4, <2>6 DEF NothingLost
<1>2. CASE PollRx
    <2>1. /\ pc[0] = "idle" /\ rx_batch[0] = <<>> /\ pc'[0] = "scan"
          /\ \A r \in Queues : r # 0 => rx_batch'[r] = rx_batch[r]
          /\ UNCHANGED <<inner, handed, neighbor, scan>>
        BY <1>0, <1>2 DEF PollRx, cache, TypeOK
    <2>2. ScanInPlace' /\ scan' = 1
        BY <1>0, <2>1 DEF ScanInPlace
    <2>3. \A q \in Consumers, ip \in Ips : Learns(q, ip)' <=> Learns(q, ip)
        BY <1>0, <2>1, OthersLearn
    <2>4. \A ip \in Ips : Learns(0, ip) => neighbor[0][ip] # NoMac
        BY <2>1 DEF Learns, InBatch
    <2>5. \A ip \in Ips : Learns(0, ip) => Learns(0, ip)'
        BY <2>1, <2>4 DEF Learns
    <2>6. \A i \in 1 .. Len(rx_batch'[0]) : ~Published(i)'
        BY <2>1, <2>2 DEF Published
    <2>7. NothingInvented'
        BY <1>0, <2>1, <2>3, <2>6 DEF NothingInvented
    <2> QED BY <1>0, <2>1, <2>2, <2>3, <2>5, <2>7 DEF NothingLost
<1>3. CASE SkipFrame \/ InsertUnchanged \/ InsertBump
    <2>1. UNCHANGED <<inner, handed, neighbor, rx_batch>>
        BY <1>3 DEF SkipFrame, InsertUnchanged, InsertBump, cache
    <2>2. scan' = scan + 1 /\ pc'[0] = "scan"
        BY <1>0, <1>3 DEF SkipFrame, InsertUnchanged, InsertBump, Scanning, TypeOK
    <2>3. ScanInPlace'
        BY <2>2 DEF ScanInPlace
    <2>4. ASSUME NEW i \in 1 .. Len(rx_batch[0]), Published(i)', rx_batch[0][i] \in Arp
          PROVE  inner[rx_batch[0][i].ip] # NoMac
        <3>1. i <= scan
            BY <1>a, <2>2, <2>4 DEF Published
        <3>2. CASE InsertBump
            BY <1>0, <2>4, <3>1, <3>2 DEF InsertBump, NothingInvented, Published
        <3>3. CASE (SkipFrame \/ InsertUnchanged) /\ i < scan
            BY <1>0, <2>4, <3>3 DEF SkipFrame, InsertUnchanged, Scanning, NothingInvented, Published
        <3>4. CASE SkipFrame /\ i = scan
            BY <2>4, <3>4, DataAssumption DEF SkipFrame, Scanned, Arp
        <3>5. CASE InsertUnchanged /\ i = scan
            BY <1>0, <2>4, <3>5, ScannedType, NoMacAssumption DEF InsertUnchanged, Scanned
        <3> QED BY <1>3, <1>a, <3>1, <3>2, <3>3, <3>4, <3>5
    <2>5. NothingInvented'
        BY <1>0, <2>1, <2>4 DEF NothingInvented, Learns
    <2> QED BY <1>0, <2>1, <2>3, <2>5 DEF NothingLost, Learns
<1>4. CASE InsertStore
    <2>1. /\ pc[0] = "scan" /\ pc'[0] = "bump" /\ scan' = scan /\ scan \in 1 .. Len(rx_batch[0])
          /\ UNCHANGED <<handed, neighbor, rx_batch>>
        BY <1>0, <1>4, <1>a DEF InsertStore, Scanning, TypeOK
    <2>2. Scanned \in Arp /\ Scanned.ip \in Ips /\ Scanned.mac # NoMac
        BY <1>0, <1>4, ScannedType, NoMacAssumption DEF InsertStore
    <2>3. /\ \A ip \in Ips : ip # Scanned.ip => inner'[ip] = inner[ip]
          /\ inner'[Scanned.ip] # NoMac
        BY <1>0, <1>4, <2>2 DEF InsertStore, TypeOK, Maps
    <2>4. ScanInPlace'
        BY <2>1 DEF ScanInPlace
    <2>5. \A q \in Queues, ip \in Ips : Learns(q, ip)' <=> Learns(q, ip)
        BY <2>1 DEF Learns
    <2>6. Learns(0, Scanned.ip)
        BY <2>1, <2>2 DEF Learns, InBatch, Scanned
    <2>7. NothingLost'
        BY <1>0, <2>1, <2>3, <2>5, <2>6 DEF NothingLost
    <2>8. ASSUME NEW i \in 1 .. Len(rx_batch[0]), Published(i)', rx_batch[0][i] \in Arp
          PROVE  inner'[rx_batch[0][i].ip] # NoMac
        <3>0. rx_batch[0][i].ip \in Ips /\ i <= scan
            BY <1>a, <2>1, <2>8 DEF Arp, Published
        <3>1. CASE i = scan
            BY <2>3, <3>1 DEF Scanned
        <3>2. CASE i < scan
            BY <1>0, <2>1, <2>3, <2>8, <3>0, <3>2 DEF NothingInvented, Published
        <3> QED BY <1>a, <3>0, <3>1, <3>2
    <2>9. NothingInvented'
        <3>1. \A ip \in Ips : inner[ip] # NoMac => inner'[ip] # NoMac
            BY <2>2, <2>3
        <3> QED BY <1>0, <2>1, <2>5, <2>8, <3>1 DEF NothingInvented
    <2> QED BY <2>4, <2>7, <2>9
<1>5. CASE ScanDone
    <2>1. /\ DeliverTop(0, rx_batch[0]) /\ pc[0] = "scan" /\ scan > Len(rx_batch[0])
          /\ pc'[0] = "idle" /\ scan' = 1 /\ UNCHANGED <<inner, handed>>
        BY <1>0, <1>5 DEF ScanDone, cache, TypeOK
    <2>2. /\ \A r \in Queues : r # 0 => rx_batch'[r] = rx_batch[r] /\ neighbor'[r] = neighbor[r]
          /\ \A ip \in Ips : Learns(0, ip)' <=> Learns(0, ip)
          /\ \A i \in 1 .. Len(rx_batch'[0]) : i \in 1 .. Len(rx_batch[0]) /\ rx_batch'[0][i] = rx_batch[0][i]
        BY <1>0, <1>a, <2>1, PopLearns DEF Learns
    <2>3. ScanInPlace'
        BY <2>1 DEF ScanInPlace
    <2>4. \A q \in Consumers, ip \in Ips : Learns(q, ip)' <=> Learns(q, ip)
        BY <1>0, <2>2, OthersLearn
    <2>5. \A i \in 1 .. Len(rx_batch[0]) : Published(i)
        BY <1>a, <2>1 DEF Published
    <2>6. \A ip \in Ips : Learns(0, ip) => inner[ip] # NoMac
        BY <1>0, <2>5 DEF Learns, InBatch, NothingInvented
    <2>7. \A i \in 1 .. Len(rx_batch[0]) : rx_batch[0][i] \in Arp => inner[rx_batch[0][i].ip] # NoMac
        BY <1>0, <2>5 DEF NothingInvented
    <2>8. NothingInvented'
        BY <1>0, <2>1, <2>2, <2>4, <2>6, <2>7 DEF NothingInvented, Learns
    <2> QED BY <1>0, <2>1, <2>2, <2>3, <2>4, <2>8 DEF NothingLost
<1>6. ASSUME NEW q \in Consumers, Consumer(q)
      PROVE  ScanInPlace' /\ NothingLost' /\ NothingInvented'
    <2>0. q \in Queues /\ q # 0
        BY <1>0
    <2>1. UNCHANGED <<inner, scan>> /\ pc'[0] = pc[0]
        BY <1>0, <1>6, <2>0 DEF Consumer, ReceiveUnchanged, ReadVersion, InjectAndPop, cache, TypeOK
    <2>2. /\ \A r \in Queues : r # q => /\ rx_batch'[r] = rx_batch[r] /\ neighbor'[r] = neighbor[r]
                                        /\ handed'[r] = handed[r]
          /\ \A ip \in Ips :
                /\ handed'[q][ip] # NoMac => Learns(q, ip)'
                /\ Learns(q, ip)' => inner[ip] # NoMac
        <3>1. CASE ReceiveUnchanged(q)
            <4>1. PICK batch \in PollRxOutcomes(q) : DeliverTop(q, batch)
                BY <3>1 DEF ReceiveUnchanged
            <4>2. batch \in Seq(Frames) /\ handed' = handed
                BY <1>0, <2>0, <3>1, PollRxOutcomesType DEF ReceiveUnchanged
            <4>3. \A ip \in Ips : Learns(q, ip)' <=> Learns(q, ip)
                BY <1>0, <2>0, <4>1, <4>2, PopLearns, PollBringsNoReply DEF Learns
            <4>4. \A r \in Queues : r # q => rx_batch'[r] = rx_batch[r] /\ neighbor'[r] = neighbor[r]
                BY <1>0, <2>0, <4>1, <4>2, PopLearns
            <4> QED BY <1>0, <4>2, <4>3, <4>4 DEF NothingLost, NothingInvented
        <3>2. CASE ReadVersion(q)
            <4>1. PICK batch \in PollRxOutcomes(q) : rx_batch' = [rx_batch EXCEPT ![q] = batch]
                BY <3>2 DEF ReadVersion
            <4>2. /\ rx_batch'[q] = batch /\ \A r \in Queues : r # q => rx_batch'[r] = rx_batch[r]
                  /\ neighbor' = neighbor /\ handed' = handed
                BY <1>0, <2>0, <3>2, <4>1 DEF TypeOK, ReadVersion
            <4>3. \A ip \in Ips : Learns(q, ip)' <=> Learns(q, ip)
                BY <1>0, <2>0, <4>2, PollBringsNoReply DEF Learns
            <4> QED BY <1>0, <4>2, <4>3 DEF NothingLost, NothingInvented
        <3>3. CASE InjectAndPop(q)
            <4>1. PICK order \in InjectionOrders, n \in 0 .. Cardinality(Entries) :
                    /\ handed' = [handed EXCEPT ![q] = [ip \in Ips |->
                           IF \E i \in 1 .. n : order[i].ip = ip
                           THEN inner[ip] ELSE handed[q][ip]]]
                    /\ DeliverTop(q, rx_batch[q] \o SubSeq(order, 1, n))
                BY <3>3 DEF InjectAndPop
            <4>2. PICK batch : batch = rx_batch[q] \o SubSeq(order, 1, n)
                OBVIOUS
            <4>3. batch \in Seq(Frames)
                <5>1. SubSeq(order, 1, n) \in Seq(Frames) /\ rx_batch[q] \in Seq(Frames)
                    BY <1>0, <2>0, InjectionType DEF TypeOK, Frames
                <5> QED BY <4>2, <5>1
            <4>4. DeliverTop(q, batch)
                BY <4>1, <4>2
            <4>5. /\ \A r \in Queues : r # q => rx_batch'[r] = rx_batch[r] /\ neighbor'[r] = neighbor[r]
                  /\ \A ip \in Ips : Learns(q, ip)' <=> neighbor[q][ip] # NoMac \/ InBatch(batch, ip)
                BY <1>0, <2>0, <4>3, <4>4, PopLearns
            <4>6. \A ip \in Ips :
                    /\ InBatch(batch, ip) <=>
                          InBatch(rx_batch[q], ip) \/ \E i \in 1 .. n : order[i].ip = ip
                    /\ (\E i \in 1 .. n : order[i].ip = ip) => inner[ip] # NoMac
                BY <1>0, <2>0, <4>2, PassBringsReplies
            <4>7. /\ \A r \in Queues : r # q => handed'[r] = handed[r]
                  /\ \A ip \in Ips : handed'[q][ip] = IF \E i \in 1 .. n : order[i].ip = ip
                                                      THEN inner[ip] ELSE handed[q][ip]
                BY <1>0, <2>0, <4>1 DEF TypeOK
            <4>8. ASSUME NEW ip \in Ips
                  PROVE  /\ handed'[q][ip] # NoMac => Learns(q, ip)'
                         /\ Learns(q, ip)' => inner[ip] # NoMac
                <5>1. /\ handed[q][ip] # NoMac => Learns(q, ip)
                      /\ Learns(q, ip) => inner[ip] # NoMac
                    BY <1>0 DEF NothingLost, NothingInvented
                <5>2. Learns(q, ip)' <=> Learns(q, ip) \/ \E i \in 1 .. n : order[i].ip = ip
                    BY <4>5, <4>6 DEF Learns
                <5>3. CASE \E i \in 1 .. n : order[i].ip = ip
                    BY <4>6, <5>2, <5>3
                <5>4. CASE ~\E i \in 1 .. n : order[i].ip = ip
                    <6>1. handed'[q][ip] = handed[q][ip]
                        BY <4>7, <5>4
                    <6> QED BY <5>1, <5>2, <5>4, <6>1
                <5> QED BY <5>3, <5>4
            <4> QED BY <4>5, <4>7, <4>8
        <3> QED BY <1>6, <3>1, <3>2, <3>3 DEF Consumer
    <2>3. rx_batch'[0] = rx_batch[0] /\ neighbor'[0] = neighbor[0]
        BY <1>0, <2>0, <2>2
    <2>4. ScanInPlace'
        BY <1>0, <2>1, <2>3 DEF ScanInPlace
    <2>5. \A r \in Queues, ip \in Ips : r # q => (Learns(r, ip)' <=> Learns(r, ip))
        BY <2>2, OthersLearn
    <2>6. NothingLost'
        BY <1>0, <2>0, <2>1, <2>2, <2>5 DEF NothingLost
    <2>7. NothingInvented'
        <3>1. \A r \in Consumers, ip \in Ips : Learns(r, ip)' => inner[ip] # NoMac
            BY <1>0, <2>2, <2>5 DEF NothingInvented
        <3> QED BY <1>0, <2>1, <2>3, <3>1 DEF NothingInvented, Published
    <2> QED BY <2>4, <2>6, <2>7
<1>7. CASE UNCHANGED vars
    BY <1>0, <1>7 DEF vars, cache, device, ScanInPlace, NothingLost, NothingInvented, Published, Learns
<1> QED BY <1>1, <1>2, <1>3, <1>4, <1>5, <1>6, <1>7 DEF Next, Producer

\* smoltcp has been given all that the cache holds: the batch is drained, and
\* for a consumer the version recorded is the cache's.
CaughtUp(q) ==
    /\ rx_batch[q] = <<>>
    /\ q # 0 => last_cache_version[q] = version /\ pc[0] # "bump"

\* A queue that has caught up resolves exactly the neighbours the cache knows,
\* whatever injections failed, were cut short by a full rx_batch or were
\* overtaken by newer ones on the way, and however the lcores interleave: no
\* reply of queue 0 is missing in another queue's table, and none is there that
\* queue 0 did not publish (inject_from_shared_cache, poll_rx and receive).  It
\* is the safety half of Propagates: what is left to fairness is that the
\* queues do catch up.
THEOREM CaughtUpQueuesResolve ==
    Spec => [](\A q \in Queues : CaughtUp(q) =>
                  \A ip \in Ips : neighbor[q][ip] # NoMac <=> inner[ip] # NoMac)
<1>1. Init => Resolution
    <2> SUFFICES ASSUME Init PROVE Resolution
        OBVIOUS
    <2>1. TypeOK
        BY QueuesAssumption, RxCapAssumption DEF Init, TypeOK, Maps, Queues
    <2>2. Inductive
        BY <2>1 DEF Init, Inductive, UpToDateMeansHanded, Consumers
    <2>3. /\ 0 \in Queues /\ Consumers \subseteq Queues /\ pc[0] = "idle" /\ scan = 1
          /\ \A q \in Queues : rx_batch[q] = <<>> /\ neighbor[q] = [ip \in Ips |-> NoMac]
          /\ \A q \in Queues : handed[q] = [ip \in Ips |-> NoMac]
          /\ inner = [ip \in Ips |-> NoMac] /\ Len(<<>>) = 0
        BY QueuesAssumption DEF Init, Queues, Consumers
    <2>4. \A q \in Queues, ip \in Ips : ~Learns(q, ip)
        BY <2>3 DEF Learns, InBatch
    <2> QED BY <2>2, <2>3, <2>4 DEF Resolution, ScanInPlace, NothingLost, NothingInvented
<1>2. ASSUME Resolution
      PROVE  \A q \in Queues : CaughtUp(q) =>
                \A ip \in Ips : neighbor[q][ip] # NoMac <=> inner[ip] # NoMac
    <2> SUFFICES ASSUME NEW q \in Queues, CaughtUp(q), NEW ip \in Ips
                 PROVE  neighbor[q][ip] # NoMac <=> inner[ip] # NoMac
        OBVIOUS
    <2>1. Learns(q, ip) <=> neighbor[q][ip] # NoMac
        BY DEF CaughtUp, Learns, InBatch
    <2>2. CASE q = 0
        BY <1>2, <2>1, <2>2 DEF Resolution, NothingLost, NothingInvented
    <2>3. CASE q # 0
        <3>1. q \in Consumers /\ handed[q] = inner
            BY <1>2, <2>3 DEF CaughtUp, Consumers, Resolution, Inductive, UpToDateMeansHanded
        <3> QED BY <1>2, <2>1, <3>1 DEF Resolution, NothingLost, NothingInvented
    <2> QED BY <2>2, <2>3
<1> QED BY <1>1, <1>2, ResolutionStep, PTL DEF Spec
=============================================================================
