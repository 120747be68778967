-------------------------------- MODULE Mbuf --------------------------------
(***************************************************************************)
(* One packet buffer: the Mbuf handle of dpdk-net/src/api/rte/mbuf.rs over *)
(* DPDK's rte_mbuf (external), and the allocation of pktmbuf.rs and        *)
(* queue.rs that hands it out.  The buffer has DataRoom bytes; the data is *)
(* the window that starts at `off` and is `dlen` long.  Lengths are usize  *)
(* in the crate and u16 (data) and u32 (packet) in rte_mbuf.               *)
(***************************************************************************)
EXTENDS Integers

CONSTANTS
  DataRoom,  \* data_room_size of the pool, a u16
  Headroom,  \* RTE_PKTMBUF_HEADROOM
  Lens       \* lengths a caller may pass

U16 == 65536
U32 == 4294967296

\* No pool is made with a data room above u16::MAX.
Parameters ==
  DataRoom \in Nat /\ DataRoom < U16 /\ Headroom \in Nat /\ Lens \subseteq Nat

VARIABLES
  at,        \* "pool", "handle" (an Mbuf owns it), "raw" (into_raw), "nic"
  off, dlen, plen,
  slice      \* the region the last call returned, <<first, after last>>

vars == <<at, off, dlen, plen, slice>>

-----------------------------------------------------------------------------
(* rte_mbuf                                                                *)

\* rte_pktmbuf_reset
FreshOff == IF Headroom < DataRoom THEN Headroom ELSE DataRoom

tailroom == DataRoom - off - dlen
headroom == off

\* The data of the mbuf as data() and data_mut() see it.
data == <<off, off + dlen>>

-----------------------------------------------------------------------------

Init ==
  /\ at = "pool" /\ off = 0 /\ dlen = 0 /\ plen = 0 /\ slice = <<0, 0>>

\* Mbuf::alloc, MemPool::try_alloc and MemPoolRef::try_alloc.
alloc ==
  /\ at = "pool" /\ at' = "handle"
  /\ off' = FreshOff /\ dlen' = 0 /\ plen' = 0
  /\ slice' = <<FreshOff, FreshOff>>

\* RxQueue::rx: the driver takes a buffer of the pool, writes a packet of n
\* bytes behind the headroom and hands it over; from_raw wraps it.
rx(n) ==
  /\ at = "pool" /\ n <= DataRoom - FreshOff
  /\ at' = "handle"
  /\ off' = FreshOff /\ dlen' = n /\ plen' = n
  /\ slice' = <<FreshOff, FreshOff + n>>

\* Mbuf::into_raw and Mbuf::from_raw.
into_raw ==
  /\ at = "handle" /\ at' = "raw" /\ UNCHANGED <<off, dlen, plen, slice>>

from_raw ==
  /\ at = "raw" /\ at' = "handle" /\ UNCHANGED <<off, dlen, plen, slice>>

\* TxQueue::tx_one: the NIC takes the mbuf and the handle is forgotten, or the
\* handle is given back as it was.
tx_one ==
  /\ at = "handle" /\ at' \in {"nic", "handle"}
  /\ UNCHANGED <<off, dlen, plen, slice>>

\* The driver frees what it has sent; drop frees what the handle owns.
TxDone ==
  /\ at = "nic" /\ at' = "pool" /\ UNCHANGED <<off, dlen, plen, slice>>

drop ==
  /\ at = "handle" /\ at' = "pool" /\ UNCHANGED <<off, dlen, plen, slice>>

\* append: refused above u16::MAX, then by DPDK for want of tailroom.
append(n) ==
  /\ at = "handle" /\ n < U16 /\ n <= tailroom
  /\ dlen' = (dlen + n) % U16 /\ plen' = (plen + n) % U32
  /\ slice' = <<off + dlen, off + dlen + n>>
  /\ UNCHANGED <<at, off>>

prepend(n) ==
  /\ at = "handle" /\ n < U16 /\ n <= headroom
  /\ off' = off - n
  /\ dlen' = (dlen + n) % U16 /\ plen' = (plen + n) % U32
  /\ slice' = <<off - n, off>>
  /\ UNCHANGED at

adj(n) ==
  /\ at = "handle" /\ n < U16 /\ n <= dlen
  /\ off' = off + n /\ dlen' = dlen - n /\ plen' = plen - n
  /\ slice' = <<off + n, off + dlen>>
  /\ UNCHANGED at

trim(n) ==
  /\ at = "handle" /\ n < U16 /\ n <= dlen
  /\ dlen' = dlen - n /\ plen' = plen - n
  /\ slice' = <<off, off + dlen - n>>
  /\ UNCHANGED <<at, off>>

reset ==
  /\ at = "handle"
  /\ off' = FreshOff /\ dlen' = 0 /\ plen' = 0
  /\ slice' = <<FreshOff, FreshOff>>
  /\ UNCHANGED at

\* extend casts what it computes; its caller answers for the tailroom.
extend(n) ==
  /\ at = "handle" /\ n <= tailroom
  /\ dlen' = (dlen + n) % U16 /\ plen' = (plen + n) % U32
  /\ slice' = <<off, off + dlen'>>
  /\ UNCHANGED <<at, off>>

saturating_sub(m, n) == IF n > m THEN 0 ELSE m - n

shrink(n) ==
  /\ at = "handle"
  /\ dlen' = saturating_sub(dlen, n) % U16
  /\ plen' = saturating_sub(plen, n) % U32
  /\ slice' = <<off, off + dlen'>>
  /\ UNCHANGED <<at, off>>

\* copy_from_slice: what does not fit leaves an empty mbuf.
copy_from_slice(n) ==
  LET fits == n < U16 /\ n <= DataRoom - FreshOff IN
  /\ at = "handle"
  /\ off' = FreshOff
  /\ dlen' = IF fits THEN n ELSE 0
  /\ plen' = IF fits THEN n ELSE 0
  /\ slice' = <<FreshOff, IF fits THEN FreshOff + n ELSE FreshOff>>
  /\ UNCHANGED at

Next ==
  \/ alloc \/ into_raw \/ from_raw \/ tx_one \/ TxDone \/ drop \/ reset
  \/ \E n \in Lens :
       \/ rx(n) \/ append(n) \/ prepend(n) \/ adj(n) \/ trim(n)
       \/ extend(n) \/ shrink(n) \/ copy_from_slice(n)

Spec == Init /\ [][Next]_vars

-----------------------------------------------------------------------------

TypeOK ==
  /\ at \in {"pool", "handle", "raw", "nic"}
  /\ off \in Nat /\ dlen \in Nat /\ plen \in Nat
  /\ slice \in Int \X Int

\* The data never leaves the buffer, whatever is appended, prepended, cut off
\* or extended, the packet length follows it, and every slice a call returned
\* was inside: no cast to u16 (mbuf.rs:122, 139, 185) loses a bit.
InBuffer ==
  /\ off + dlen <= DataRoom
  /\ plen = dlen
  /\ 0 <= slice[1] /\ slice[1] <= slice[2] /\ slice[2] <= DataRoom

Inv == TypeOK /\ InBuffer
=============================================================================
