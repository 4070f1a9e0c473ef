# A verification of the STM32MP1 examples

This directory holds TLA+ models of the programs of this repository that talk to
each other: the two Cortex-M4 firmwares and the OpenAMP code under them, the
Linux driver that shares large buffers, the sampling application, and the mailbox
and queues between them; and of the sampling system that they make up together.
The models are checked with TLC on small instances; theorems about them are
proved with TLAPS for every value of the constants.

`PROJECT.json` maps every definition to the lines of code it stands for.

## 1. The system

    sampling application        (1_userland_app/rpmsg_sdb_app)   Linux, user
         | ioctl, mmap, eventfd            | tty
    rpmsg_sdb driver            (0_kernel_modules/rpmsg_sdb)     Linux, kernel
         | rpmsg                           | rpmsg
    ---- virtqueues (two vrings in shared memory) and IPCC mailbox (two channels) ----
         | rpmsg_hdr.c                     | virt_uart.c
    sampling firmware           (exchange_large_buf/CM4)         Cortex-M4
         | HAL DMA
    the buffers in DDR, which the driver allocated

A session: the application opens the device and, for each buffer, creates an
entry with an eventfd (`SET_EFD`) and maps it; the driver allocates DMA memory and
sends `B<i>A<address>L<length>`. The firmware accepts the buffers in the order of
their indices and becomes idle when it has all of them. A command `Start...` on
the virtual UART makes it copy into the current buffer by DMA; when the transfer
is complete it answers `B<i>L<length>`, the driver records the length and signals
the eventfd, and the application asks for the length (`GET_DATA_SIZE`) and reads
the memory. `Exit` aborts.

### Components, their state, operations and hard parts

| component | state | operations | what is hard |
|---|---|---|---|
| sampling firmware, `CM4/Core/Src/main.c` | `fHDRStatus`, one message slot per endpoint, array of DDR buffers with index and count | two receive callbacks, command and buffer handling, state machine, DMA completion and error interrupts, shutdown callback | the completion interrupt writes the status of the state machine between any two of its steps; aborts race with completions; slots are overwritten |
| HAL DMA, `stm32mp1xx_hal_dma.c` | handle state and lock, stream, flags | `Start_IT`, `Abort_IT`, interrupt handler | lock taken in the main loop and released in the interrupt |
| mailbox, `mbox_ipcc.c`, `stm32mp1xx_hal_ipcc.c` | two flags; status, mask and callback bits of two channels | init, poll, notify, two callbacks, interrupt handler | flags written by an interrupt and cleared by a poll; busy waits on both sides |
| virtqueue, `virtqueue.c` | descriptors and their free chain, two rings with wrapping indices, two reading positions | add, get (driver); get available, add consumed (device); kick | two cores, no lock between them; wrap of the indices; full and empty |
| rpmsg, `rpmsg_virtio.c`, `rpmsg.c` | endpoint list, address bitmap, device lock | send, receive, name service, create and destroy endpoint | one lock that is a spin lock, taken in the main loop and in an interrupt; buffer wait |
| endpoints, `rpmsg_hdr.c`, `virt_uart.c`, `openamp.c` | one callback each | init, transmit, receive | none of their own |
| rpmsg_sdb driver, `stm32_rpmsg_sdb.c` | list of entries, `LastBufferId`, mutex, DMA memory | open, `SET_EFD`, `GET_DATA_SIZE`, mmap, close, rpmsg callback | user threads and the callback share the list; one ioctl of two takes the mutex; close frees what the callback may hold; failures half way |
| sampling application, `rpmsg_sdb_app.c` | machine state, buffer awaited, files, mappings | two threads, main, signal handler | the threads and the signal handler share plain variables |
| echo firmware, `exchange_buf/CM4` (application `rpmsg_app`) | transfer state, one message slot per UART, SPI handle | two receive callbacks, main loop, SPI interrupt | the interrupt and the main loop both write the transfer state; a debug loop is compiled in |
| others | | `mygpio`, `myirq`, `hello`, `neon`, device trees, vendored HAL and CMSIS | no protocol; not modelled |

### What makes each correct

* Firmware: the DMA only writes to buffers that Linux announced; a buffer is
  announced only when a transfer filled it, once per start; an idle machine is not
  woken by an old transfer; the DMA lock is always released; a start is served.
* Mailbox: no message stays in a vring with nobody going to look; busy waits end.
* Virtqueue: each buffer belongs to one side; order is kept; nothing is lost or
  overwritten when the indices wrap; the free chain agrees with its counter.
* Driver: entries are in the order of their indices; the size returned is the one
  written; no valid announcement is refused; memory is freed once, and all of it.
* rpmsg: every buffer of a vring is in one place, every address belongs to one
  endpoint, a message reaches the endpoint it was sent to, and a send returns.
* The sampling system: what is stored is the sample that was asked for, once,
  complete; the DMA writes to memory that is allocated at that moment; a start
  that is accepted ends in the file.
* Echo firmware: a completed transfer is sent once, from buffers that no transfer
  is using.

## 2. Modules

| module | models | kind |
|---|---|---|
| `HdrFirmware` | main.c of the firmware, the DMA handle, `MAILBOX_Poll` as seen by the application | state machine |
| `Mailbox` | IPCC channels, `mbox_ipcc.c`, HAL interrupt handler | state machine with fairness |
| `BufferExchange` | what a virtqueue promises: two owners and two queues | abstract specification |
| `Vring` | `virtqueue.c`, both roles | state machine, refines `BufferExchange` |
| `SdbDriver` | `stm32_rpmsg_sdb.c` | state machine with fairness |
| `Rpmsg` | `rpmsg.c`, `rpmsg_virtio.c` (remote role), the endpoints, the spin lock of libmetal | state machine with fairness |
| `SamplingSession` | what application, driver and firmware promise together | abstract specification |
| `SdbSystem` | `rpmsg_sdb_app.c`, composed with `HdrFirmware` and a reduced driver | state machine with fairness, refines `SamplingSession` |
| `EchoFirmware` | main.c of `exchange_buf` | state machine with fairness |
| `HdrFirmware_proofs`, `Mailbox_proofs`, `Vring_proofs`, `SdbDriver_proofs`, `Rpmsg_proofs`, `SdbSystem_proofs`, `EchoFirmware_proofs` | theorems about the module of that name | proofs |
| `MC*` | instances for TLC | |

**HdrFirmware.** `pc` cuts the main loop where an interrupt can be observed: poll,
drain, ack, cmd, sdb, fsm, arm and the second half of an abort. Interrupts
(`IpccNewMsg`, `IrqComplete`, `IrqAborted`, `IrqError`, `CoproSync_ShutdownCb`) are
actions enabled at every `pc`. A test and the assignment it guards are two steps
where an interrupt changes what was tested: `StartAllowed`/`SetStart` and
`FsmAbort`/`AbortSet`. Messages are records; the parsing of `B<i>A<addr>L<len>`
is the predicate `Awaited`. `fill`, `starts`, `announced` and `earlyExits` are
history. Texts sent on the virtual UART are left out: nothing reads them.

**Mailbox.** `C1SR`, `C2SR`, `C2MR` are the registers, `callbackRequest` the field of
the handle. The interrupt handler is three actions (read the pending channels;
one callback each) during which the main loop stands still and Linux does not.
Only the number of messages in each vring is kept. `late` is history.

**Vring.** Slot and index are written in two steps, on both sides. `IdxMod` is
2^16 in the code: any multiple of the size larger than the size behaves alike,
which is why a small one is enough to see every wrap. The device may return
descriptors in any order. `Implements` maps the rings to the two queues of
`BufferExchange`; the refinement says more than the invariants: order, and that
the cookie handed back is the buffer that was added.

**SdbDriver.** `open`, `close` and the parts of `SET_EFD`, `GET_DATA_SIZE`, mmap and the
callback are actions, cut where another thread sees the difference. `Garbage`
stands for what kmalloc leaves in a field; a comparison with it goes either way.
Where `MayFail` allows it a user copy (`SetEfdFault`, `GetFault`), the allocation
(`MmapNoMemory`), the remapping (`MmapNoRemap`) and `rpmsg_send` (`MmapSendFails`, whose
result nobody looks at) fail. The firmware is three actions (`M4Accept`, `M4Announce`,
`M4Restart`). `Handshake` says that the application asks for a new buffer only when it
has read the last, and `ReadersWait` that it asks for a size only after it has read
the event of the buffer, which clears it; the driver itself answers at any time.

**Rpmsg.** Two contexts share the device lock: `main`, and `isr` for the DMA error
interrupt, whose callback `TransferErrorDDR` sends. While `isr` is not idle, `main` does
not run (`Runs`); the lock is a spin lock, so a context that finds it taken stays
where it is. `pc` names the next critical section, and each section is one action
(`SendGet`, `SendEnqueue`, `RxGet`, `RxFind`, `NsLookup`, `RxNext`, `CreateRegister`,
`CreateEnd`, `DestroyEnd`): between two sections the interrupt may come. So may the
receive interrupt (`IPCC_channel2_callback`, for the `kick` of Linux): it sets the flag
`notified`, with which the main loop enters the callback (`RxStart`) and which it
clears after the callback has returned (`RxClear`), as `MAILBOX_Poll` does. What arrives
in between waits with no interrupt to come; `stranded` (history) says which way a
message came to wait so. `Match` is one
round of `rpmsg_get_endpoint`, name and all. The vrings are counters and queues,
which is what `Vring` shows of them. `AvailSize` keeps the arithmetic of the code: an
empty vring makes it -16.

**SdbSystem** extends `HdrFirmware` and uses its actions unchanged for the firmware.
Of the driver it keeps what `SdbDriver` shows: one size and one event counter per
entry. The main thread of the application, `sdb_thread` and the signal handler are
cut at every access to `mMachineState`, `mDdrBuffAwaited`, the descriptor and the mapping,
which they share without a lock. The application can be signalled, killed and
restarted at any point, and finds the firmware off or still running. `starts`,
`filled`, `stored` and `holds` number the samples; the refinement maps them to
`SamplingSession`, whose promise ends when the buffers are freed under a running
firmware (`orphaned`) and begins again with the next start of it.

**EchoFirmware.** `pc` cuts the main loop at each access to `wTransferState`. A poll of
the mailbox finds its flag or not. Linux writes any text to either UART.

### Plan

Done: every module above, the proof of every safety property that a passing run
checks, and of the two refinements. Next:

1. weaker hypotheses where a theorem has any: what remains of `NeverRefused` and of
   `SizeIsTheOneWritten` when the firmware is not restarted with each session;
2. the counters with which `Rpmsg` and `Mailbox` stand for a vring, from `Vring`: that
   the number of unread entries is all that the user of a queue can see of it;
3. the safety part of the liveness properties: measures that each step of a
   context decreases (`SendReturnsUnlessStuck`, `EventServed`), so that only fairness is
   left to TLC.

## 3. Runs

| run | instance | shows |
|---|---|---|
| `hdr_safety` | two buffers, `S`, `E`, `R`, five messages, two sessions, errors and shutdown | the six safety properties of the firmware |
| `hdr_shutdown` | | a transfer runs on after the shutdown was acknowledged (violation) |
| `mbox` | vrings of three, unbounded traffic | announcements, busy wait, delivery to Linux |
| `mbox_wakeup` | vrings of two | a message in the window of `MAILBOX_Poll` is forgotten (violation) |
| `vring` | two descriptors, three buffers, indices modulo 4 | ownership, free chain, refinement; the queue fills |
| `rpmsg` | two endpoints created, destroyed, created again, one transmit and two receive buffers, one transfer error | buffers, addresses, delivery, messages that wait unannounced, and the end of every send but for one deadlock |
| `rpmsg_deadlock` | the same | the error interrupt spins on the lock of the main loop (violation) |
| `sdb_safety` | two setters, one reader, two sessions, three entries, two announcements, copies, mmaps and sends that fail, repeated mmaps | order of indices, sizes, refusals, leaks, double frees; an accepted announcement is read |
| `sdb_two_readers` | two readers that ask with or without an event | one size handed out twice (violation) |
| `system` | one buffer (`NB_BUF` is 1), six messages, two allocations, signals and crashes, one lost announcement | the promise of `SamplingSession`, live memory, sizes, refusals; a start is stored |
| `system_lost_start` | one session, no lost announcement | a start drained with the buffer message is refused and the application waits for ever (violation) |
| `echo` | four messages of two texts on two UARTs | one sample for each transfer, stable buffers, a start is answered |

Bounds. In `HdrFirmware`, `MaxMsgs` = 5 lets Linux announce both buffers and start, exit and
start again, or close the session and announce the first buffer once more. In `SdbDriver`, three
entries and allocations over two sessions give a failed, a repeated and a good
mmap, and two announcements are enough for one to overtake `LastBufferId` and for a
second to meet the size of the first (three were checked once, with the same result);
two setters are the smallest number that can race, and the readers that
race are in `sdb_two_readers`. `Mailbox` and `Vring` have no bound but their sizes: their
state spaces are finite. In `Rpmsg` three creations and destructions in
all (`MaxChanges`) are enough to give an address away twice, and one transmit buffer
makes both the failed announcement and the send that finds nothing. In `SdbSystem`
six messages are two sessions of one sample or one session of four, and the
second session may find the firmware running. `Echo`: with four messages two
starts overlap and a third finds the debug loop. `MaxObj`, `MaxMem`, `MaxMsgs`,
`MaxSessions`, `MaxAddr`, `MaxErrors`, `MaxChanges`, `MaxDropped` and `MaxSent` stop counters and
histories that the code does not bound.

Deadlock is not checked in four modules: the runs of `SdbDriver` and `SdbSystem` end
with their bounds or with everything switched off; `Rpmsg` really stops
(that is `rpmsg_deadlock`); `EchoFirmware` really stops in `Error_Handler`.

Fairness. The main loop of a firmware is `while (1)` with no blocking call but the
wait of `MAILBOX_Notify`, so it is weakly fair; an interrupt that stays pending is
taken; the stream of the DMA and the SPI transfer end. In `Rpmsg` fairness is of the
processor as a whole (`Step`): whichever context can run goes on, and no more is
needed, for the interrupt runs to its end. For Linux, the mailbox driver delivers
a kick when the channel is free and its work item runs; the rpmsg callback runs on
a kernel worker; the threads of the application are scheduled; data on a tty is
read. No one is obliged to send, to open, to close, to start, to stop or to
restart anything (`SysFairSpec` has no fairness for signals, exits or starts).

### Disagreements between code and comments

* `mbox_ipcc.c:134` clears the flag after the processing; `:106` promises that an
  interrupt leads to processing. The lost message waits for the next one. Run
  `mbox_wakeup`; `RingAnnounced` and its proof show that this is the only window.
* `mbox_ipcc.c:136-137` means to notify free buffers and passes `NULL`, which
  `rproc_virtio_notified` refuses (`NotifyFree` is modelled as this refused call).
* `main.c:298-302` acknowledges the shutdown with the DMA running. Run `hdr_shutdown`.
* `stm32_rpmsg_sdb.c:56` calls the mutex one "to protect the ioctls"; one ioctl does
  not take it, so two threads that ask at the same time both get the size. Run
  `sdb_two_readers`.
* `stm32_rpmsg_sdb.c:248` frees "the CMA allocation" also where there is none;
  `OtherwiseFreedOnce` names these entries as the exception.
* `rpmsg.h:141` promises that a send returns within 15 seconds; `main.c:134-138` sends
  from the DMA error interrupt, on a spin lock. Run `rpmsg_deadlock`.
* The same text promises that a send waits for a buffer: with an empty vring the
  available size is -16, which `rpmsg_virtio.c:334` takes for an error of size, so no
  send waits. `NoBuffer` is that code.
* `rpmsg_sdb_app.c:516` waits "till at least one buffer becomes available";
  `main.c:228-238` treats a start before the buffer it was sent after, refuses it, and
  nothing is ever available. Run `system_lost_start`.

### What the exceptions in the properties say

Some properties hold but for a case, and the case is what the code really does:
`lost` and `destroyed` in `Rpmsg` (after an endpoint is destroyed its address is used
again while Linux may hold the old channel, and a message for an unknown address
leaves its buffer and all behind it in the vring); `stranded` = "late" in `Rpmsg` and
`late` in `Mailbox` (the window of `mbox_ipcc.c:134`); `earlyExits` in `HdrFirmware` (an exit
before the buffers are known makes the machine idle with no address); `overwritten`
in `SdbDriver` (a second mmap of the same entry); `orphaned` in `SdbSystem`
(`exit_fct` and a crash free the buffers before the firmware stops; the DMA then
writes to freed memory, and the next instance finds its buffer refused);
`dropped` (the result of `RPMSG_HDR_Transmit` is ignored); `overlap` in `EchoFirmware` (a
start during a transfer leads to `Error_Handler`, a lost sample, or a buffer
changed under the DMA). The runs reach each of them. A property with such an
exception says that there is no other way; it does not catch the case itself, and
"hazards" in `PROJECT.json` lists these cases with a note instead of a property.

## 4. Proofs

Every safety property of a passing run, and both refinements, are theorems: they
hold for every value of the constants that the named assumption of the module
allows. Each was checked by TLC first, and so was each inductive invariant.

| module | theorems | hypotheses beyond the module's assumption |
|---|---|---|
| `HdrFirmware_proofs` | `TypeCorrect`, `TargetIsKnown`, `DoneIsFilled`, `IdleQuiet`, `LockReleased`, `AnnouncedAtMostOnce` | none |
| `Mailbox_proofs` | `TypeCorrect`, `Announced` | none |
| `Vring_proofs` | `TypeCorrect`, `OnePlace`, `ChainEnds`, `FreeClean`, `ExchangeKept` | none |
| `SdbDriver_proofs` | `TypeCorrect`, `Positions`, `ClosedFreesAll`, `FreedOnce` | none |
| | `NoneRefused` | `FwRestarts` |
| | `SizeReturned` | `FwRestarts`, `Handshake`, `ReadersWait`, `OneReader` |
| `Rpmsg_proofs` | `TypeCorrect`, `BuffersKept`, `AddressesUnique`, `Drains`, `Delivered` | none |
| | `BoundToPeer` | `DistinctNames` |
| `SdbSystem_proofs` | `SysTypeCorrect`, `DmaLive`, `SizeAlwaysReal`, `RefusedEarly`, `SessionKept` | none |
| `EchoFirmware_proofs` | `TypeCorrect`, `SentOnce`, `Stable` | none |

The hypotheses are what the runs assume too. `FwRestarts`, `Handshake` and `ReadersWait`
are how `rpmsg_sdb_app.c` uses the driver (it starts the firmware first and stops it
last, asks for a buffer only when it has read the last one, and for a size only when
it has read the event; after a crash of the
application it does not, and `SdbSystem` shows what follows); `OneReader` is its one
`sdb_thread`, and `sdb_two_readers` shows that the property needs it. `DistinctNames` says that no two
endpoints of a firmware have the same name, as in `exchange_large_buf`
(`rpmsg-tty-channel` and `rpmsg-sdb-channel`): a destination is found by the name.

**HdrFirmware** (from `HdrAssumption`: at least one buffer, no more indices than
the array has). The inductive invariant `IInv` adds to the types

* `SlotSent`: a buffer message in the slot was sent by Linux (else the array bound
  cannot be shown);
* `Stored`: the addresses below the count are not null;
* `HandleInv`: handle, lock, stream and flag agree, and a completed stream filled
  its target;
* `Ordered`: before all buffers are known nothing but an exit moves the machine;
* `Awaiting`: while a completion may come, the machine is in WAIT or ABORT and the
  target is the current buffer;
* `Counted`: each announcement made or still possible has a start of its own.

None of the properties is inductive without them: `AnnouncedOnce`, for example,
needs to know which of START, arm, a completable transfer and DONE are pending.

**Mailbox** (from `MailboxAssumption`). The invariant adds `Looked`: when the receive
callback has returned and no message came late, the vring is empty.

**Vring** (from `VringAssumption`: the size divides the range of the indices and is
smaller). The first half is about what lies between two wrapping indices: writing
the next slot changes nothing that is unread (`BetweenWrite`), publishing the index
appends the entry (`BetweenAppend`), reading takes the first away (`BetweenTail`), as
long as fewer entries than slots are unread; that they are fewer follows from
counting: unread entries differ from each other and from the one that is added
(`EntryBound`). The invariant then follows a descriptor through five places:

* `Apart`: the unread entries of the two rings, the two entries written and not
  published, and the descriptors of the device share nothing;
* `Chained`: all others, and only they, form a chain of `vq_free_cnt` descriptors that
  starts at the head and ends in `VQ_RING_DESC_CHAIN_END`;
* `Cleared` and `Loaded`: what a descriptor carries in the chain and outside of it;
* `Owners`: two descriptors outside carry two buffers, the driver has those that no
  descriptor carries, and the device those of the descriptors it holds.

`Walk` is recursive; that it follows the chain comes from the chain itself, which is
a solution of its equation, and from the least place where the two would differ.
In the refinement the two writes of slots are stutters, for a buffer counts as
handed over when the index is published; `CapacityKept` maps the buffers that are
away to different descriptors.

**SdbDriver** (from `SdbAssumption`, any number of threads, entries and sessions).
Three layers: `ListInv` (the list, its numbering and the memory behind it), `CountInv`
(what the coprocessor has been told is no more than what was counted), and
`TokenInv` (one announcement at a time: in the vring, in the callback, as an event of
one entry, or with the reader).

**Rpmsg** (from `RpmsgAssumption`). `Base` says where a context may be and what it holds
there, and that the list of endpoints and the bitmap agree. On top of it
`RxAccounted`/`TxAccounted` count the buffers, and `Drained` says when a message in the
vring is announced: a kick is still to come, or the flag is set and not about to be
cleared, or `stranded` says how it came to wait. `RxDrained` is what is left of it when
the main loop is idle: the late message of `mbox_wakeup` and a message behind an
unknown address are its two exceptions. `Owned` says whose addresses are
in channels and messages as long as no endpoint was destroyed, and `Aimed` that a
message is with the endpoint of its address. The sections are atomic because of
the lock; the proofs need no more of it than that.

**SdbSystem** (from `SystemAssumption` and `HdrAssumption`). It cites the invariant of
`HdrFirmware`: `EitherBoots` shows that each step of the system is a step of the firmware
module, or starts the firmware anew. Then three layers: `Calm` (the application never
sends an exit, so no abort is under way), `Buffers` (what the firmware knows are the
buffers of the open session) and `SysInv`: the sample under way is at one place of
eight, from the command to the file (`AtOnePlace`, `Single`, `Known`), and the counters of
samples and the contents of the buffers agree with that place (`Counts`, `Contents`).
`SessionKept` is the refinement of `SamplingSession`, one lemma for each kind of step.

**EchoFirmware** (from `EchoAssumption`). `InStep`: transfer state, SPI handle and place of
the main loop agree while starts do not overlap; `SamplesCovered`: a sample being
sent is one of a completed transfer.

Only model-checked: the liveness properties (`RingServed`, `NotifyReturns`,
`MessagesRead`, `EventServed`, `SendReturnsUnlessStuck`, `StartStored`, `StartAnswered`): they
rest on fairness and hence on ENABLED, which the prover does not handle. The
properties of the five runs that expect a violation are false, and the runs give
the counterexamples.

For the proofs some assumptions on constants are stated that the code meets and
the instances always met: the names `"nobody"` and `"NS"` are not those of a thread or
an endpoint, and the commands of the application are among those of the firmware.

## 5. Not modelled

The text of messages, logging, clock and pin set-up; probe and remove of the
driver and a second open of the device while it is open; a kmalloc that fails, which
the driver does not test for, and in `SdbSystem` the failures of the driver, which
`SdbDriver` has; the timeouts of Linux;
chained and indirect descriptors and the event index, which rpmsg does not use
here; the master role of rpmsg; blocking transfers and double buffering of the
HAL; `vitural_tty_thread`, which only logs, and `sampling_stop`, which nothing calls;
`NB_BUF` larger than 1 in the application (its `mDdrBuffAwaited` would start from 0 with
each sample while the firmware goes on to the next buffer).

The remaining components are listed as not modelled in `PROJECT.json`: two kernel
modules and two programs with no protocol, and the vendored HAL, CMSIS and device
trees. The vendored files are the bulk of the repository, twice over, once for each
firmware project: register definitions, drivers of peripherals that are not used,
and second copies of the OpenAMP files that are modelled from the first. Of the
lines that the repository's own programs run, most are mapped.
