-------------------------------- MODULE Rpmsg --------------------------------
(***************************************************************************)
(* rpmsg on the Cortex-M4 (open-amp lib/rpmsg/rpmsg.c and rpmsg_virtio.c,  *)
(* remote role): the list of endpoints and the bitmap of their addresses,  *)
(* the name service, the receive callback, and the sending of a message in *)
(* two critical sections of one device lock.                               *)
(*                                                                         *)
(* Two contexts of the M4 use it.  "main" is the main loop; "isr" is the   *)
(* DMA error interrupt, whose callback TransferErrorDDR writes to the      *)
(* virtual UART: it stops the main loop wherever it is and runs to its     *)
(* end.  The lock is the spin lock of libmetal.  Linux is the other side   *)
(* of the two vrings, which are BufferExchange's queues here.              *)
(***************************************************************************)
EXTENDS Integers, Sequences, FiniteSets

CONSTANTS
  Epts,       \* endpoints of the firmware
  LogEpt,     \* the one every callback reports on (huart0)
  Service,    \* the name each endpoint announces
  BmpSize,    \* RPMSG_ADDR_BMP_SIZE
  NsAddr,     \* RPMSG_NS_EPT_ADDR
  TxBufs,     \* buffers of the vring to Linux
  RxBufs,     \* buffers of the vring from Linux
  Ticks,      \* intervals a send is meant to wait: RPMSG_TICK_COUNT / RPMSG_TICKS_PER_INTERVAL
  MaxErrors,  \* bound: transfer errors
  MaxChanges  \* bound: creations and destructions of endpoints

NS == "NS"              \* rdev->ns_ept

ASSUME RpmsgAssumption ==
  /\ LogEpt \in Epts /\ NS \notin Epts
  /\ BmpSize \in Nat \ {0} /\ NsAddr \in 0..BmpSize-1
  /\ IsFiniteSet(Epts) /\ Cardinality(Epts) =< NsAddr    \* 2 of 53 in this firmware
  /\ TxBufs \in Nat \ {0} /\ RxBufs \in Nat \ {0}
  /\ Ticks \in Nat /\ MaxErrors \in Nat /\ MaxChanges \in Nat

VARIABLES
  lock,        \* rdev->lock: its holder, or Free
  pc,          \* per context: the next critical section, or where it is outside
  back,        \* per context: where a send returns to
  snd,         \* per context: the message being sent
  ticks,       \* per context: tick_count
  result,      \* per context: what the send of a creation returned
  txHeld,      \* per context: it holds a buffer of the transmit vring
  cur,         \* the endpoint main is working on, NS when there is none
  rx,          \* the message main holds, or NoMsg
  ept,         \* the endpoint structures
  endpoints,   \* the list of registered ones
  bitmap,      \* addresses in use
  txAvail,     \* buffers of Linux waiting to be filled
  toLinux,     \* messages in the transmit vring
  rxq,         \* messages in the receive vring
  rxFree,      \* receive buffers in the hands of Linux
  kick,        \* a kick of Linux whose interrupt is still to come
  notified,    \* msg_received_ch2 is RX_NEW_MSG
  stranded,    \* history: why messages of the vring may be announced no more
  channels,    \* Linux: its channels, by address and endpoint of the M4
  errors,      \* history: transfer errors so far
  changes,     \* history: creations and destructions so far
  lost,        \* history: receive buffers never given back
  destroyed    \* history: an endpoint has been destroyed

ctxVars  == <<lock, pc, back, snd, ticks, result, txHeld>>
eptVars  == <<ept, endpoints, bitmap, destroyed>>
txVars   == <<txAvail, toLinux>>
rxVars   == <<rx, rxq, rxFree, kick, notified, stranded, lost>>
vars == <<ctxVars, cur, eptVars, txVars, rxVars, channels, errors, changes>>

Contexts == {"main", "isr"}
Free == "free"
Any  == -1              \* RPMSG_ADDR_ANY
NoMsg == [kind |-> "none"]
HdrSize == 16           \* sizeof(struct rpmsg_hdr)
BufSize == 512          \* RPMSG_BUFFER_SIZE, the length of every descriptor of Linux
MsgSize == 40           \* a typical message

\* The address Linux gives to its side of a channel.
Peer(addr) == 1024 + addr

Init ==
  /\ lock = Free
  /\ pc = [c \in Contexts |-> "idle"] /\ back = [c \in Contexts |-> "idle"]
  /\ snd = [c \in Contexts |-> NoMsg] /\ ticks = [c \in Contexts |-> 0]
  /\ result = [c \in Contexts |-> "ok"] /\ txHeld = [c \in Contexts |-> FALSE]
  /\ cur = NS
  /\ ept = [e \in Epts \cup {NS} |-> IF e = NS THEN [rdev |-> TRUE, addr |-> NsAddr, dest |-> NsAddr]
                                     ELSE [rdev |-> FALSE, addr |-> 0, dest |-> 0]]
  /\ endpoints = <<NS>>
  /\ bitmap = {}
  /\ txAvail = TxBufs /\ toLinux = <<>>
  /\ rx = NoMsg /\ rxq = <<>> /\ rxFree = RxBufs
  /\ kick = FALSE /\ notified = FALSE /\ stranded = "none"
  /\ channels = {}
  /\ errors = 0 /\ changes = 0 /\ lost = 0 /\ destroyed = FALSE

------------------------------------------------------------------------------
(* The lock, and who runs.                                                  *)

\* The interrupt keeps the main loop from running.
Runs(c) == c = "isr" \/ pc["isr"] = "idle"

\* Critical sections, named by the pc that enters them.
Sections == {"get", "enqueue", "rxget", "find", "ns", "rxnext", "create", "created", "unreg"}

\* metal_mutex_acquire: a spin; nobody but the holder ends it.
Acquire(c) ==
  /\ Runs(c)
  /\ pc[c] \in Sections
  /\ lock = Free
  /\ lock' = c
  /\ UNCHANGED <<pc, back, snd, ticks, result, txHeld, cur, eptVars, txVars, rxVars,
                 channels, errors, changes>>

Inside(c, section) == Runs(c) /\ pc[c] = section /\ lock = c
Goto(c, to) == pc' = [pc EXCEPT ![c] = to]
Registered == {endpoints[i] : i \in DOMAIN endpoints}

------------------------------------------------------------------------------
(* Sending: rpmsg_virtio_send_offchannel_raw.                               *)

\* The call: rpmsg_send_offchannel_raw refuses an endpoint with no device.
Call(c, known, msg, ret) ==
  /\ IF known
     THEN /\ Goto(c, "get")
          /\ back' = [back EXCEPT ![c] = ret]
          /\ snd' = [snd EXCEPT ![c] = msg]
          /\ ticks' = [ticks EXCEPT ![c] = Ticks]
     ELSE Goto(c, ret) /\ UNCHANGED <<back, snd, ticks>>
  /\ UNCHANGED <<result, txHeld>>

\* The return: the locals are gone, and only a creation looks at the result.
Return(c, res) ==
  /\ Goto(c, back[c])
  /\ back' = [back EXCEPT ![c] = "idle"]
  /\ snd' = [snd EXCEPT ![c] = NoMsg]
  /\ ticks' = [ticks EXCEPT ![c] = 0]
  /\ result' = [result EXCEPT ![c] = IF back[c] = "created" THEN res ELSE "ok"]

\* rpmsg_send: no destination, no message.  What the text says does not matter.
rpmsg_send(c, e, ret) == Call(c, e.rdev /\ e.dest # Any, [kind |-> "data"], ret)

\* As if the buffers were those of the master.
AvailSizeMaster == BufSize - HdrSize

\* _rpmsg_virtio_get_buffer_size: an empty vring has a descriptor of length 0.
AvailSize == (IF txAvail > 0 THEN BufSize ELSE 0) - HdrSize

\* The error exits of SendGet: the tests of tick_count and of avail_size.
NoBuffer(c) ==
  IF ticks[c] = 0 \/ AvailSize # 0
  THEN Return(c, IF ticks[c] = 0 THEN "err_no_buff" ELSE "err_buff_size")
  ELSE /\ ticks' = [ticks EXCEPT ![c] = @ - 1]
       /\ UNCHANGED <<pc, back, snd, result>>

\* First critical section: take a buffer if the message fits into the next one.
SendGet(c) ==
  /\ Inside(c, "get")
  /\ lock' = Free
  /\ IF MsgSize =< AvailSize
     THEN /\ Goto(c, "enqueue")
          /\ txHeld' = [txHeld EXCEPT ![c] = TRUE]
          /\ txAvail' = txAvail - 1
          /\ UNCHANGED <<back, snd, ticks, result>>
     ELSE NoBuffer(c) /\ UNCHANGED <<txHeld, txAvail>>
  /\ UNCHANGED <<cur, eptVars, toLinux, rxVars, channels, errors, changes>>

\* Second critical section: enqueue the filled buffer and kick.
Enqueue(c) ==
  /\ Inside(c, "enqueue")
  /\ toLinux' = Append(toLinux, snd[c])
  /\ txHeld' = [txHeld EXCEPT ![c] = FALSE]
  /\ Return(c, "ok")
  /\ UNCHANGED <<cur, eptVars, txAvail, rxVars, channels, errors, changes>>

SendEnqueueKeeps(c) == Enqueue(c) /\ UNCHANGED lock
SendEnqueue(c) == Enqueue(c) /\ lock' = Free

\* TransferErrorDDR, in the DMA interrupt: it sends on the virtual UART.
DmaError ==
  /\ pc["isr"] = "idle" /\ errors < MaxErrors
  /\ errors' = errors + 1
  /\ rpmsg_send("isr", ept[LogEpt], "idle")
  /\ UNCHANGED <<lock, cur, eptVars, txVars, rxVars, channels, changes>>

\* The main loop sends on one of its endpoints.
AppSend(e) ==
  /\ Runs("main") /\ pc["main"] = "idle"
  /\ rpmsg_send("main", ept[e], "idle")
  /\ UNCHANGED <<lock, cur, eptVars, txVars, rxVars, channels, errors, changes>>

------------------------------------------------------------------------------
(* Receiving: rpmsg_virtio_rx_callback, and the name service.               *)

NameOf(e) == IF e = NS THEN "NS" ELSE Service[e]

\* rpmsg_get_endpoint that forgets to compare the names.
MatchAnyName(e, name, addr, dest) ==
  \/ addr # Any /\ ept[e].addr = addr
  \/ ept[e].addr = addr /\ ept[e].dest = dest
  \/ name # "" /\ dest # Any /\ ept[e].dest = dest
  \/ name # "" /\ addr = Any /\ ept[e].dest = Any

\* One round of the loop of rpmsg_get_endpoint; "" is no name.
Match(e, name, addr, dest) ==
  \/ addr # Any /\ ept[e].addr = addr
  \/ ept[e].addr = addr /\ ept[e].dest = dest
  \/ name = NameOf(e) /\ dest # Any /\ ept[e].dest = dest
  \/ name = NameOf(e) /\ addr = Any /\ ept[e].dest = Any

\* rpmsg_get_endpoint: the first of the list that matches, if there is one.
Matching(name, addr, dest) ==
  {i \in DOMAIN endpoints : Match(endpoints[i], name, addr, dest)}
GetEndpoint(name, addr, dest) ==
  endpoints[CHOOSE i \in Matching(name, addr, dest) :
              \A j \in Matching(name, addr, dest) : i =< j]

NoEffect == UNCHANGED <<back, snd, ticks, txHeld, txVars, channels, errors>>
NoSend == NoEffect /\ UNCHANGED changes
NoCall == NoSend /\ UNCHANGED result

\* The receive interrupt leaves its flag.  It has the priority of the DMA
\* interrupt, so neither stops the other.
IPCC_channel2_callback ==
  /\ pc["isr"] = "idle" /\ kick
  /\ kick' = FALSE /\ notified' = TRUE
  /\ UNCHANGED <<ctxVars, cur, eptVars, txVars, rx, rxq, rxFree, stranded, lost, channels, errors, changes>>

\* MAILBOX_Poll calls rproc_virtio_notified while the flag is still set.
RxStart ==
  /\ Runs("main") /\ pc["main"] = "idle" /\ notified
  /\ Goto("main", "rxget")
  /\ stranded' = "none"
  /\ NoCall /\ UNCHANGED <<lock, cur, eptVars, rx, rxq, rxFree, kick, notified, lost>>

\* The next message, or the end of the callback.
TakeNext ==
  IF rxq = <<>>
  THEN Goto("main", "ack") /\ rx' = NoMsg /\ UNCHANGED rxq
  ELSE Goto("main", "find") /\ rx' = Head(rxq) /\ rxq' = Tail(rxq)

\* MAILBOX_Poll, after the callback: the flag is cleared, also when a new
\* interrupt has set it again; a kick still to come will announce what waits.
RxClear ==
  /\ Runs("main") /\ pc["main"] = "ack"
  /\ notified' = FALSE /\ stranded' = IF kick THEN "none" ELSE stranded
  /\ Goto("main", "idle")
  /\ NoCall /\ UNCHANGED <<lock, cur, eptVars, rx, rxq, rxFree, kick, lost>>

RxGet ==
  /\ Inside("main", "rxget")
  /\ lock' = Free
  /\ TakeNext
  /\ NoCall /\ UNCHANGED <<cur, eptVars, rxFree, kick, notified, stranded, lost>>

\* No endpoint of that address: the callback returns, with the buffer and
\* whatever else is in the vring left where they are.
RxFind ==
  /\ Inside("main", "find")
  /\ lock' = Free
  /\ IF Matching("", rx.dst, Any) # {}
     THEN /\ cur' = GetEndpoint("", rx.dst, Any)
          /\ Goto("main", "cb")
          /\ UNCHANGED <<rx, stranded, lost>>
     ELSE /\ Goto("main", "ack") /\ rx' = NoMsg /\ lost' = lost + 1
          /\ stranded' = IF rxq = <<>> THEN "none" ELSE "unknown"
          /\ UNCHANGED cur
  /\ NoCall /\ UNCHANGED <<eptVars, rxq, rxFree, kick, notified>>

\* The first message gives the endpoint its destination; then the callback:
\* those of main.c write a line on the virtual UART.
RxDeliver ==
  /\ Runs("main") /\ pc["main"] = "cb" /\ cur # NS
  /\ LET known == [ept EXCEPT ![cur].dest = IF @ = Any THEN rx.src ELSE @]
     IN ept' = known /\ rpmsg_send("main", known[LogEpt], "rxnext")
  /\ UNCHANGED <<lock, cur, endpoints, bitmap, destroyed, txVars, rxVars, channels, errors, changes>>

\* rpmsg_virtio_ns_callback up to its critical section.
RxNameService ==
  /\ Runs("main") /\ pc["main"] = "cb" /\ cur = NS
  /\ Goto("main", "ns")
  /\ NoCall /\ UNCHANGED <<lock, cur, eptVars, rxVars>>

\* The critical section: main.c gives no ns_bind_cb and no ns_unbind_cb.
NsLookup ==
  /\ Inside("main", "ns")
  /\ lock' = Free
  /\ Goto("main", "rxnext")
  /\ ept' = IF Matching(rx.name, Any, rx.addr) = {} THEN ept
            ELSE [ept EXCEPT ![GetEndpoint(rx.name, Any, rx.addr)].dest =
                    IF rx.kind = "destroy" THEN Any ELSE rx.addr]
  /\ NoCall /\ UNCHANGED <<cur, endpoints, bitmap, destroyed, rxVars>>

ReturnForgotten == UNCHANGED rxFree
ReturnBuffer == rxFree' = rxFree + 1

\* One message per call.
TakeNone == Goto("main", "ack") /\ rx' = NoMsg /\ UNCHANGED rxq

RxNextLast ==
  /\ Inside("main", "rxnext")
  /\ lock' = Free
  /\ ReturnBuffer /\ TakeNone
  /\ cur' = NS
  /\ NoCall /\ UNCHANGED <<eptVars, kick, notified, stranded, lost>>

\* Return the buffer and take the next one, in one critical section.
RxNext ==
  /\ Inside("main", "rxnext")
  /\ lock' = Free
  /\ ReturnBuffer /\ TakeNext
  /\ cur' = NS
  /\ NoCall /\ UNCHANGED <<eptVars, kick, notified, stranded, lost>>

------------------------------------------------------------------------------
(* Endpoints: OPENAMP_create_endpoint and OPENAMP_destroy_ept.              *)

\* A bitmap search that never looks at the bits.
FirstBit == 0

\* rpmsg_get_address.
NextClearBit ==
  LET clear == (0..BmpSize-1) \ bitmap
  IN IF clear = {} THEN Any ELSE CHOOSE a \in clear : \A b \in clear : a =< b

Create(e) ==
  /\ Runs("main") /\ pc["main"] = "idle" /\ e \notin Registered
  /\ changes < MaxChanges /\ changes' = changes + 1
  /\ cur' = e
  /\ Goto("main", "create")
  /\ NoEffect /\ UNCHANGED <<lock, eptVars, rxVars, result>>

\* Every caller leaves both addresses to be chosen, so each creation is announced.
CreateRegister ==
  /\ Inside("main", "create")
  /\ lock' = Free
  /\ ept' = [ept EXCEPT ![cur] = [rdev |-> TRUE, addr |-> NextClearBit, dest |-> Any]]
  /\ bitmap' = bitmap \cup ({NextClearBit} \ {Any})
  /\ endpoints' = Append(endpoints, cur)
  /\ Call("main", TRUE, [kind |-> "create", addr |-> NextClearBit, name |-> Service[cur], of |-> cur],
          "created")
  /\ UNCHANGED <<cur, destroyed, txVars, rxVars, channels, errors, changes>>

\* The list without the node of an endpoint: metal_list_del.
Without(e) ==
  LET i == CHOOSE i \in DOMAIN endpoints : endpoints[i] = e
  IN SubSeq(endpoints, 1, i - 1) \o SubSeq(endpoints, i + 1, Len(endpoints))

\* An address that stays taken.
UnregisterKept ==
  /\ endpoints' = Without(cur)
  /\ UNCHANGED bitmap

\* rpmsg_unregister_endpoint; it leaves ept->rdev.
rpmsg_unregister_endpoint ==
  /\ endpoints' = Without(cur)
  /\ bitmap' = bitmap \ {ept[cur].addr}

CreateEnd ==
  /\ Inside("main", "created")
  /\ lock' = Free
  /\ Goto("main", "idle")
  /\ IF result["main"] # "ok" THEN rpmsg_unregister_endpoint ELSE UNCHANGED <<endpoints, bitmap>>
  /\ result' = [result EXCEPT !["main"] = "ok"] /\ cur' = NS
  /\ NoSend /\ UNCHANGED <<ept, destroyed, rxVars>>

\* The announcement may fail; the endpoint is removed in any case.
Destroy(e) ==
  /\ Runs("main") /\ pc["main"] = "idle" /\ e \in Registered
  /\ changes < MaxChanges /\ changes' = changes + 1
  /\ cur' = e
  /\ destroyed' = TRUE
  /\ Call("main", TRUE, [kind |-> "destroy", addr |-> ept[e].addr, name |-> Service[e], of |-> e],
          "unreg")
  /\ UNCHANGED <<lock, ept, endpoints, bitmap, txVars, rxVars, channels, errors>>

DestroyEnd ==
  /\ Inside("main", "unreg")
  /\ lock' = Free
  /\ Goto("main", "idle")
  /\ rpmsg_unregister_endpoint
  /\ cur' = NS
  /\ NoCall /\ UNCHANGED <<ept, destroyed, rxVars>>

------------------------------------------------------------------------------
(* Linux.                                                                   *)

\* It reads a message, frees the buffer, and keeps its channels.
LinuxRead ==
  /\ toLinux # <<>>
  /\ toLinux' = Tail(toLinux) /\ txAvail' = txAvail + 1
  /\ LET msg == Head(toLinux)
     IN channels' = CASE msg.kind = "create"  -> channels \cup {[addr |-> msg.addr, of |-> msg.of]}
                      [] msg.kind = "destroy" -> {ch \in channels : ch.addr # msg.addr}
                      [] OTHER -> channels
  /\ UNCHANGED <<ctxVars, cur, eptVars, rxVars, errors, changes>>

LinuxTransmit(msg) ==
  /\ rxFree > 0
  /\ rxFree' = rxFree - 1
  /\ rxq' = Append(rxq, msg)
  /\ kick' = TRUE
  /\ stranded' = IF pc["main"] = "ack" THEN "late" ELSE "none"
  /\ UNCHANGED <<ctxVars, cur, eptVars, txVars, rx, notified, lost, errors, changes>>

LinuxSend(ch) ==
  /\ ch.addr # Any
  /\ LinuxTransmit([kind |-> "data", src |-> Peer(ch.addr), dst |-> ch.addr, for |-> ch.of])
  /\ UNCHANGED channels

\* Its own name service messages; the second goes with the end of the channel.
LinuxNs(ch, kind) ==
  /\ LinuxTransmit([kind |-> kind, dst |-> NsAddr, name |-> Service[ch.of], addr |-> Peer(ch.addr),
                    for |-> NS])
  /\ channels' = IF kind = "destroy" THEN channels \ {ch} ELSE channels

------------------------------------------------------------------------------
Send(c) == Acquire(c) \/ SendGet(c) \/ SendEnqueue(c)
Receive == \/ RxStart \/ RxGet \/ RxFind \/ RxDeliver \/ RxNameService \/ NsLookup \/ RxNext
           \/ RxClear
Endpoint == CreateRegister \/ CreateEnd \/ DestroyEnd
Step == (\E c \in Contexts : Send(c)) \/ Receive \/ Endpoint
Application == \E e \in Epts : AppSend(e) \/ Create(e) \/ Destroy(e)
Linux ==
  \/ LinuxRead
  \/ \E ch \in channels : LinuxSend(ch) \/ \E kind \in {"create", "destroy"} : LinuxNs(ch, kind)

Next == Step \/ Application \/ DmaError \/ IPCC_channel2_callback \/ Linux
Spec == Init /\ [][Next]_vars

\* Each context of the processor goes on when it can.
FairSpec == Spec /\ WF_vars(Step)

------------------------------------------------------------------------------
(* Properties.                                                              *)

Address == (0..BmpSize-1) \cup {Any}
Pcs == {"idle", "cb", "ack"} \cup Sections

\* Types.  The counts of free buffers never leave the size of their vring.
TypeOK ==
  /\ lock \in Contexts \cup {Free}
  /\ pc \in [Contexts -> Pcs] /\ back \in [Contexts -> Pcs]
  /\ ticks \in [Contexts -> 0..Ticks] /\ txHeld \in [Contexts -> BOOLEAN]
  /\ result \in [Contexts -> {"ok", "err_no_buff", "err_buff_size"}]
  /\ cur \in Epts \cup {NS} /\ Registered \subseteq Epts \cup {NS}
  /\ \A e \in Epts \cup {NS} : ept[e].rdev \in BOOLEAN /\ ept[e].addr \in Address
  /\ bitmap \subseteq 0..BmpSize-1
  /\ txAvail \in 0..TxBufs /\ rxFree \in 0..RxBufs
  /\ errors \in 0..MaxErrors /\ changes \in 0..MaxChanges /\ lost \in 0..RxBufs
  /\ kick \in BOOLEAN /\ notified \in BOOLEAN /\ stranded \in {"none", "late", "unknown"}
  /\ destroyed \in BOOLEAN

\* Whatever the main loop and the interrupt were in the middle of, each buffer
\* of the two vrings is in one place; only the return of the receive callback
\* for an unknown address loses one, and that takes a destroyed endpoint.
BuffersAccounted ==
  /\ rxFree + Len(rxq) + (IF rx = NoMsg THEN 0 ELSE 1) + lost = RxBufs
  /\ txAvail + Len(toLinux) + Cardinality({c \in Contexts : txHeld[c]}) = TxBufs
  /\ lost > 0 => destroyed

\* The bitmap is exactly the addresses of the registered endpoints, which are
\* all different, from each other and from the name service, through failed
\* creations and destructions (rpmsg_get_address: "a unique address").
AddressesExact ==
  LET at == [i \in DOMAIN endpoints |-> ept[endpoints[i]].addr]
  IN /\ bitmap = {at[i] : i \in DOMAIN at \ {1}}
     /\ \A i, j \in DOMAIN at : at[i] = at[j] => i = j

\* A message reaches the callback of the endpoint whose announcement made the
\* channel it was sent on.  A destroyed endpoint breaks this for good: its
\* address goes to the next one while Linux may still hold the channel.
DeliveredToOwner == pc["main"] = "cb" /\ ~destroyed => rx.for = cur

\* The destination of an endpoint, whether learnt from a first message or from
\* the name service, is the Linux side of its own channel.
BoundToOwnPeer ==
  ~destroyed => \A e \in Registered \ {NS} : ept[e].dest \in {Any, Peer(ept[e].addr)}

\* While the main loop is elsewhere, a message in the receive vring is still
\* announced, by a kick or by the flag, but for two cases, each over with the
\* next announcement: its interrupt came after the callback had looked and
\* before MAILBOX_Poll cleared the flag, or the callback met an unknown address,
\* which takes a destroyed endpoint, and returned early.
RxDrained ==
  pc["main"] = "idle" /\ rxq # <<>> =>
    kick \/ notified \/ stranded = "late" \/ (stranded = "unknown" /\ destroyed)

Sending(c) == pc[c] \in {"get", "enqueue"}

\* The interrupt waits for the lock of the main loop it has stopped.
Stuck == lock = "main" /\ pc["isr"] \in Sections

\* A send comes to its end, full vring or not, in both contexts, but for the
\* deadlock of the interrupt with the main loop.
SendReturnsUnlessStuck == \A c \in Contexts : Sending(c) ~> ~Sending(c) \/ Stuck

\* rpmsg_send "will block until one becomes available, or a timeout of 15
\* seconds elapses": every send returns.  It does not when the DMA error
\* callback sends while the main loop holds the device lock.
SendReturns == \A c \in Contexts : Sending(c) ~> ~Sending(c)
==============================================================================
