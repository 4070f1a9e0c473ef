-------------------------------- MODULE Vring --------------------------------
(***************************************************************************)
(* One virtqueue of OpenAMP (open-amp/lib/virtio/virtqueue.c), with both   *)
(* roles the file has: the driver (master) adds buffers and gets the used  *)
(* ones back, the device (remote, the role of the firmware) gets available *)
(* buffers and returns them consumed.  Each role runs under the lock of    *)
(* its rpmsg device, hence one operation at a time per side, but the two   *)
(* sides run on different cores and share the rings: an operation that     *)
(* writes a ring slot and then publishes it is two steps.                  *)
(*                                                                         *)
(* rpmsg always adds one descriptor at a time; the indices of the rings    *)
(* are uint16_t and wrap.                                                  *)
(***************************************************************************)
EXTENDS Integers, Sequences, FiniteSets

CONSTANTS
  Buf,          \* the shared buffers
  vq_nentries,  \* number of descriptors
  IdxMod        \* 2^16: where the indices of the rings wrap

ASSUME VringAssumption ==
  /\ vq_nentries \in Nat \ {0}
  /\ IdxMod \in Nat /\ IdxMod > vq_nentries /\ IdxMod % vq_nentries = 0

Desc == 0 .. vq_nentries - 1
Idx  == 0 .. IdxMod - 1
NoBuf == "none"          \* a NULL cookie
ChainEnd == vq_nentries  \* VQ_RING_DESC_CHAIN_END

VARIABLES
  addr, next,                   \* vring descriptors
  cookie, ndescs,               \* vq_descx
  vq_desc_head_idx, vq_free_cnt,
  availRing, availIdx,          \* the available ring: slots and idx
  usedRing, usedIdx,            \* the used ring
  vq_used_cons_idx,             \* the driver's reading position
  vq_available_idx,             \* the device's reading position
  driver, device,               \* buffers that the users of the two sides hold
  held,                         \* descriptors the device got and has not returned
  publishing                    \* sides that wrote a slot and not yet the idx

descVars == <<addr, next, cookie, ndescs, vq_desc_head_idx, vq_free_cnt>>
ringVars == <<availRing, availIdx, usedRing, usedIdx>>
posVars  == <<vq_used_cons_idx, vq_available_idx>>
vars == <<descVars, ringVars, posVars, driver, device, held, publishing>>

Slot(idx) == idx % vq_nentries
Inc(idx)  == (idx + 1) % IdxMod

\* vq_ring_init chains the descriptors.
Init ==
  /\ addr = [d \in Desc |-> NoBuf] /\ next = [d \in Desc |-> d + 1]
  /\ cookie = [d \in Desc |-> NoBuf] /\ ndescs = [d \in Desc |-> 0]
  /\ vq_desc_head_idx = 0 /\ vq_free_cnt = vq_nentries
  /\ availRing = [s \in Desc |-> 0] /\ availIdx = 0
  /\ usedRing = [s \in Desc |-> 0] /\ usedIdx = 0
  /\ vq_used_cons_idx = 0 /\ vq_available_idx = 0
  /\ driver = Buf /\ device = {} /\ held = {} /\ publishing = {}

------------------------------------------------------------------------------
(* The driver.                                                              *)

\* virtqueue_add_buffer, up to the write of the slot of the available ring; with
\* no free descriptor it returns ERROR_VRING_FULL.
AddBuffer(b) ==
  /\ "driver" \notin publishing
  /\ b \in driver
  /\ vq_free_cnt > 0
  /\ addr' = [addr EXCEPT ![vq_desc_head_idx] = b]
  /\ cookie' = [cookie EXCEPT ![vq_desc_head_idx] = b]
  /\ ndescs' = [ndescs EXCEPT ![vq_desc_head_idx] = 1]
  /\ vq_desc_head_idx' = next[vq_desc_head_idx]
  /\ vq_free_cnt' = vq_free_cnt - 1
  /\ availRing' = [availRing EXCEPT ![Slot(availIdx)] = vq_desc_head_idx]
  /\ driver' = driver \ {b}
  /\ publishing' = publishing \cup {"driver"}
  /\ UNCHANGED <<next, availIdx, usedRing, usedIdx, posVars, device, held>>

\* vq_ring_update_avail: the fence, then idx.
PublishAvail ==
  /\ "driver" \in publishing
  /\ availIdx' = Inc(availIdx)
  /\ publishing' = publishing \ {"driver"}
  /\ UNCHANGED <<descVars, availRing, usedRing, usedIdx, posVars, driver, device, held>>

\* Mutant: the descriptor is not put back at the head of the free chain.
FreeChainLost(d) ==
  /\ vq_free_cnt' = vq_free_cnt + ndescs[d]
  /\ ndescs' = [ndescs EXCEPT ![d] = @ - 1]
  /\ next' = [next EXCEPT ![d] = vq_desc_head_idx]
  /\ UNCHANGED vq_desc_head_idx

\* Mutant: the descriptor is not counted down.
FreeChainCounted(d) ==
  /\ vq_free_cnt' = vq_free_cnt + ndescs[d]
  /\ next' = [next EXCEPT ![d] = vq_desc_head_idx]
  /\ vq_desc_head_idx' = d
  /\ UNCHANGED ndescs

\* vq_ring_free_chain, for a chain of one descriptor.
FreeChain(d) ==
  /\ vq_free_cnt' = vq_free_cnt + ndescs[d]
  /\ ndescs' = [ndescs EXCEPT ![d] = @ - 1]
  /\ next' = [next EXCEPT ![d] = vq_desc_head_idx]
  /\ vq_desc_head_idx' = d

virtqueue_get_buffer ==
  /\ "driver" \notin publishing
  /\ vq_used_cons_idx # usedIdx
  /\ LET d == usedRing[Slot(vq_used_cons_idx)] IN
     /\ FreeChain(d)
     /\ driver' = driver \cup {cookie[d]}
     /\ cookie' = [cookie EXCEPT ![d] = NoBuf]
  /\ vq_used_cons_idx' = Inc(vq_used_cons_idx)
  /\ UNCHANGED <<addr, ringVars, vq_available_idx, device, held, publishing>>

------------------------------------------------------------------------------
(* The device.                                                              *)

\* Mutant: the reading position does not wrap with the index.
TakenPast(idx) == idx + 1

\* vq_available_idx++.
Taken(idx) == Inc(idx)

virtqueue_get_available_buffer ==
  /\ "device" \notin publishing
  /\ vq_available_idx # availIdx
  /\ LET d == availRing[Slot(vq_available_idx)] IN
     /\ held' = held \cup {d}
     /\ device' = device \cup {addr[d]}
  /\ vq_available_idx' = Taken(vq_available_idx)
  /\ UNCHANGED <<descVars, ringVars, vq_used_cons_idx, driver, publishing>>

\* Mutant: idx is published with the slot still to be written.
SlotKept(d) == UNCHANGED usedRing

\* Mutant: the number of the slot is stored for that of the descriptor.
SlotAsId(d) == usedRing' = [usedRing EXCEPT ![Slot(usedIdx)] = Slot(usedIdx)]

\* The slot of the used ring that idx designates.
WriteUsed(d) == usedRing' = [usedRing EXCEPT ![Slot(usedIdx)] = d]

\* virtqueue_add_consumed_buffer, up to the write of the slot.
AddConsumed(d) ==
  /\ "device" \notin publishing
  /\ d \in held
  /\ WriteUsed(d)
  /\ held' = held \ {d}
  /\ device' = device \ {addr[d]}
  /\ publishing' = publishing \cup {"device"}
  /\ UNCHANGED <<descVars, availRing, availIdx, usedIdx, posVars, driver>>

PublishUsed ==
  /\ "device" \in publishing
  /\ usedIdx' = Inc(usedIdx)
  /\ publishing' = publishing \ {"device"}
  /\ UNCHANGED <<descVars, availRing, availIdx, usedRing, posVars, driver, device, held>>

Driver == (\E b \in Buf : AddBuffer(b)) \/ PublishAvail \/ virtqueue_get_buffer
Device == virtqueue_get_available_buffer \/ (\E d \in Desc : AddConsumed(d)) \/ PublishUsed

Next == Driver \/ Device
Spec == Init /\ [][Next]_vars

------------------------------------------------------------------------------
(* Properties.                                                              *)

\* Types; the number of free descriptors stays between 0 and vq_nentries.
TypeOK ==
  /\ addr \in [Desc -> Buf \cup {NoBuf}] /\ cookie \in [Desc -> Buf \cup {NoBuf}]
  /\ next \in [Desc -> 0 .. ChainEnd] /\ ndescs \in [Desc -> {0, 1}]
  /\ vq_desc_head_idx \in 0 .. ChainEnd /\ vq_free_cnt \in 0 .. vq_nentries
  /\ availRing \in [Desc -> Desc] /\ usedRing \in [Desc -> Desc]
  /\ availIdx \in Idx /\ usedIdx \in Idx
  /\ vq_used_cons_idx \in Idx /\ vq_available_idx \in Idx
  /\ driver \subseteq Buf /\ device \subseteq Buf /\ held \subseteq Desc
  /\ publishing \subseteq {"driver", "device"}

\* What lies in a ring between two positions, oldest first, with a slot that is
\* written but not published when the writer is publishing.
Between(ring, from, to) ==
  [i \in 1 .. (to - from) % IdxMod |-> ring[Slot((from + i - 1) % IdxMod)]]
Pending(side, ring, idx) ==
  IF side \in publishing THEN {ring[Slot(idx)]} ELSE {}
Avail == Between(availRing, vq_available_idx, availIdx)
Used  == Between(usedRing, vq_used_cons_idx, usedIdx)
Entries(s) == {s[i] : i \in DOMAIN s}

\* The free chain, followed from its head, and as far as vq_free_cnt says.
Walk ==
  LET at[i \in 1 .. vq_nentries + 1] ==
        IF i = 1 THEN vq_desc_head_idx
        ELSE IF at[i - 1] \in Desc THEN next[at[i - 1]] ELSE ChainEnd
  IN at
Chain == [i \in 1 .. vq_free_cnt |-> Walk[i]]

\* Every descriptor is in exactly one place: free, or on its way to the device,
\* or held by it, or on its way back. Neither ring forgets an entry that its
\* reader has not seen when the indices wrap.
OnePlaceEach ==
  LET parts == <<Entries(Chain), Entries(Avail), Pending("driver", availRing, availIdx),
                 held, Entries(Used), Pending("device", usedRing, usedIdx)>>
  IN /\ UNION {parts[i] : i \in DOMAIN parts} = Desc
     /\ \A i, j \in DOMAIN parts : i # j => parts[i] \cap parts[j] = {}
     /\ Cardinality(Entries(Avail)) = Len(Avail) /\ Cardinality(Entries(Used)) = Len(Used)

\* VQ_RING_ASSERT_CHAIN_TERM: the chain ends where the counter says it does, and
\* not before.
ChainTerminated == Entries(Chain) \subseteq Desc /\ Walk[vq_free_cnt + 1] = ChainEnd

\* VQASSERT: a free descriptor has no cookie and is not part of a chain.
FreeIsClean == \A d \in Entries(Chain) : cookie[d] = NoBuf /\ ndescs[d] = 0

\* The virtqueue implements the exchange of buffers.
BufsOf(s) == [i \in DOMAIN s |-> addr[s[i]]]
Exchange == INSTANCE BufferExchange WITH
  Capacity <- vq_nentries,
  driver   <- driver \cup {addr[d] : d \in Pending("driver", availRing, availIdx)},
  device   <- device \cup {addr[d] : d \in Pending("device", usedRing, usedIdx)},
  toDevice <- BufsOf(Avail),
  toDriver <- BufsOf(Used)

Implements == Exchange!Spec
==============================================================================
