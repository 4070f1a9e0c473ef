----------------------------- MODULE HdrFirmware -----------------------------
(***************************************************************************)
(* The Cortex-M4 application of exchange_large_buf (CM4/Core/Src/main.c):  *)
(* the sampling state machine, the two single-slot message buffers that    *)
(* its rpmsg callbacks fill, the polling of the mailbox that drains the    *)
(* receive vring (CM4/OPENAMP/mbox_ipcc.c), and the DMA handle of the HAL  *)
(* with the stream and the interrupt that work under it.                   *)
(*                                                                         *)
(* Four actors interleave: the main loop (one action per stretch that no   *)
(* interrupt can observe half done, ordered by pc), the IPCC interrupt,    *)
(* the DMA stream with its interrupt, and Linux, which appends messages to *)
(* the receive vring and rings the mailbox.                                *)
(***************************************************************************)
EXTENDS Integers, Sequences

CONSTANTS
  DdrCnt,      \* SAMP_DDR_BUFFER_CNT
  NbBuf,       \* buffers one Linux session maps (NB_BUF of rpmsg_sdb_app.c)
  Cmds,        \* the commands Linux writes to the virtual UART
  MaxMsgs,     \* bound: messages Linux sends
  MaxAddr,     \* bound: DDR buffers Linux allocates, over all its sessions
  DmaMayFail,  \* whether a transfer may end in a transfer error
  MayShutdown  \* whether Linux may ask for the coprocessor to be shut down

ASSUME HdrAssumption ==
  /\ DdrCnt \in Nat \ {0}
  /\ NbBuf \in 0 .. DdrCnt
  /\ Cmds \subseteq {"S", "E", "R"}
  /\ MaxMsgs \in Nat
  /\ MaxAddr \in Nat
  /\ DmaMayFail \in BOOLEAN
  /\ MayShutdown \in BOOLEAN

VARIABLES
  pc,                  \* where the main loop is
  fHDRStatus,          \* the state machine
  VirtUart0RxMsg, VirtUart0ChannelBuffRx,   \* last command and its flag
  SDB0RxMsg, SDB0ChannelBuffRx,             \* last buffer message and its flag
  mArrayDdrBuff, mArrayDdrBuffIndex, mArrayDdrBuffCount,
  msg_received_ch2,    \* set by the IPCC interrupt, cleared by MAILBOX_Poll
  hdma,                \* the HAL handle: State and Lock
  stream, dst,         \* the DMA stream: enabled or not, its target
  flag,                \* its interrupt flag: "none", "TC" or "TE"
  dmaIrq,            \* the DMA interrupt is enabled in the NVIC
  shutdown,         \* Linux has been told it may stop the core
  rvq,                 \* receive vring: messages of Linux not yet consumed
  kicks,               \* mailbox notifications of Linux not yet delivered
  linuxBufs,           \* addresses of the buffers of the current session
  allocated,           \* history: number of addresses Linux ever allocated
  sent,                \* history: number of messages Linux ever sent
  fill,                \* history: address the last full transfer wrote, or NoFill
  starts, announced,   \* history: transfers asked for, buffers announced
  earlyExits            \* history: number of "E" treated before all buffers were known

loopVars == <<pc, fHDRStatus, VirtUart0RxMsg, VirtUart0ChannelBuffRx,
              SDB0RxMsg, SDB0ChannelBuffRx>>
buffVars == <<mArrayDdrBuff, mArrayDdrBuffIndex, mArrayDdrBuffCount>>
dmaVars  == <<hdma, stream, dst, flag, fill>>
ipcVars  == <<msg_received_ch2, rvq, kicks>>
linuxVars == <<linuxBufs, allocated, sent>>
haltVars == <<dmaIrq, shutdown>>
histVars == <<starts, announced, earlyExits>>
vars == <<loopVars, buffVars, dmaVars, ipcVars, linuxVars, haltVars, histVars>>

Null   == 0         \* a zero-initialised physAddr
Wild   == -1        \* what lies behind the end of mArrayDdrBuff
NoFill == -2
Addr   == 1 .. MaxAddr

NoBuf == [id |-> 0, addr |-> Null]
Message == [ept : {"tty"}, cmd : Cmds]
           \cup [ept : {"sdb"}, id : 0 .. NbBuf - 1, addr : Addr]

Init ==
  /\ pc = "poll"
  /\ fHDRStatus = "INIT"
  /\ VirtUart0RxMsg = "RESET" /\ VirtUart0ChannelBuffRx = "none"
  /\ SDB0RxMsg = "RESET" /\ SDB0ChannelBuffRx = NoBuf
  /\ mArrayDdrBuff = [i \in 0 .. DdrCnt - 1 |-> Null]
  /\ mArrayDdrBuffIndex = 0 /\ mArrayDdrBuffCount = 0
  /\ msg_received_ch2 = "RX_NO_MSG"
  /\ hdma = [State |-> "READY", Lock |-> "UNLOCKED"]
  /\ stream = "off" /\ dst = Null /\ flag = "none" /\ fill = NoFill
  /\ dmaIrq = "enabled" /\ shutdown = "none"
  /\ rvq = <<>> /\ kicks = 0
  /\ linuxBufs = <<>> /\ allocated = 0 /\ sent = 0
  /\ starts = 0 /\ announced = 0 /\ earlyExits = 0

------------------------------------------------------------------------------
(* Linux: the tty and the sdb driver share the vring, hence one order.      *)

SendToM4(m) ==
  /\ sent < MaxMsgs
  /\ sent' = sent + 1
  /\ rvq' = Append(rvq, m)
  /\ kicks' = kicks + 1
  /\ UNCHANGED <<loopVars, buffVars, dmaVars, msg_received_ch2, haltVars, histVars>>

\* A write to /dev/ttyRPMSG0.
SendCommand(c) ==
  /\ SendToM4([ept |-> "tty", cmd |-> c])
  /\ UNCHANGED <<linuxBufs, allocated>>

\* rpmsg_sdb_mmap: a buffer is allocated and its identity sent.
SendBuffer ==
  /\ Len(linuxBufs) < NbBuf
  /\ allocated < MaxAddr
  /\ SendToM4([ept |-> "sdb", id |-> Len(linuxBufs), addr |-> allocated + 1])
  /\ linuxBufs' = Append(linuxBufs, allocated + 1)
  /\ allocated' = allocated + 1

\* rpmsg_sdb_close: the buffers are freed and the numbering starts again.
CloseSession ==
  /\ linuxBufs # <<>>
  /\ linuxBufs' = <<>>
  /\ UNCHANGED <<loopVars, buffVars, dmaVars, ipcVars, allocated, sent, haltVars, histVars>>

Linux == (\E c \in Cmds : SendCommand(c)) \/ SendBuffer \/ CloseSession

------------------------------------------------------------------------------
(* Interrupts of the IPCC.                                                  *)

\* IPCC_channel2_callback: new message; the channel is acknowledged at once.
IpccNewMsg ==
  /\ kicks > 0
  /\ kicks' = kicks - 1
  /\ msg_received_ch2' = "RX_NEW_MSG"
  /\ UNCHANGED <<loopVars, buffVars, dmaVars, rvq, linuxVars, haltVars, histVars>>

\* Only the DMA interrupt is disabled before Linux is told to go ahead.
CoproSync_ShutdownCb ==
  /\ MayShutdown /\ shutdown = "none"
  /\ dmaIrq' = "disabled"
  /\ shutdown' = "acked"
  /\ UNCHANGED <<loopVars, buffVars, dmaVars, ipcVars, linuxVars, histVars>>

------------------------------------------------------------------------------
(* The DMA stream, and the interrupt handler of the HAL.                    *)

StreamCompletes ==
  /\ stream = "on"
  /\ stream' = "off" /\ flag' = "TC" /\ fill' = dst
  /\ UNCHANGED <<loopVars, buffVars, hdma, dst, ipcVars, linuxVars, haltVars, histVars>>

StreamFails ==
  /\ DmaMayFail
  /\ stream = "on"
  /\ stream' = "off" /\ flag' = "TE"
  /\ UNCHANGED <<loopVars, buffVars, hdma, dst, fill, ipcVars, linuxVars, haltVars, histVars>>

\* Mutant: the handler forgets to clear the flag of the stream.
DmaIrqFlagKept(f) ==
  /\ dmaIrq = "enabled"
  /\ flag = f
  /\ UNCHANGED flag
  /\ hdma' = [State |-> "READY", Lock |-> "UNLOCKED"]
  /\ UNCHANGED <<pc, VirtUart0RxMsg, VirtUart0ChannelBuffRx, SDB0RxMsg, SDB0ChannelBuffRx,
                 buffVars, stream, dst, fill, ipcVars, linuxVars, haltVars, histVars>>

\* Mutant: the handler forgets __HAL_UNLOCK.
DmaIrqLockKept(f) ==
  /\ dmaIrq = "enabled"
  /\ flag = f
  /\ flag' = "none"
  /\ hdma' = [hdma EXCEPT !.State = "READY"]
  /\ UNCHANGED <<pc, VirtUart0RxMsg, VirtUart0ChannelBuffRx, SDB0RxMsg, SDB0ChannelBuffRx,
                 buffVars, stream, dst, fill, ipcVars, linuxVars, haltVars, histVars>>

\* HAL_DMA_IRQHandler always ends with the handle unlocked and ready.
DmaIrq(f) ==
  /\ dmaIrq = "enabled"
  /\ flag = f
  /\ flag' = "none"
  /\ hdma' = [State |-> "READY", Lock |-> "UNLOCKED"]
  /\ UNCHANGED <<pc, VirtUart0RxMsg, VirtUart0ChannelBuffRx, SDB0RxMsg, SDB0ChannelBuffRx,
                 buffVars, stream, dst, fill, ipcVars, linuxVars, haltVars, histVars>>

\* Mutant: the completion callback also runs for an aborted transfer.
IrqAbortedReported == DmaIrq("TC") /\ hdma.State = "ABORT" /\ fHDRStatus' = "DONE"

\* The stream was disabled by HAL_DMA_Abort_IT: no completion callback.
IrqAborted == DmaIrq("TC") /\ hdma.State = "ABORT" /\ UNCHANGED fHDRStatus

\* TransferCompleteDDR.
IrqComplete == DmaIrq("TC") /\ hdma.State # "ABORT" /\ fHDRStatus' = "DONE"

\* TransferErrorDDR only reports: the state machine is not told.
IrqError == DmaIrq("TE") /\ UNCHANGED fHDRStatus

Dma == StreamCompletes \/ StreamFails \/ IrqAborted \/ IrqComplete \/ IrqError

------------------------------------------------------------------------------
(* Main loop, first part: OPENAMP_check_for_message, that is MAILBOX_Poll.  *)

\* The receive callback drains the vring once the flag has been seen.
Poll ==
  /\ pc = "poll"
  /\ pc' = IF msg_received_ch2 = "RX_NEW_MSG" THEN "drain" ELSE "cmd"
  /\ UNCHANGED <<fHDRStatus, VirtUart0RxMsg, VirtUart0ChannelBuffRx, SDB0RxMsg,
                 SDB0ChannelBuffRx, buffVars, dmaVars, ipcVars, linuxVars, haltVars, histVars>>

\* VIRT_UART0_RxCpltCallback: a command not yet treated is overwritten.
RxCommand ==
  /\ pc = "drain"
  /\ rvq # <<>> /\ Head(rvq).ept = "tty"
  /\ rvq' = Tail(rvq)
  /\ VirtUart0ChannelBuffRx' = Head(rvq).cmd
  /\ VirtUart0RxMsg' = "SET"
  /\ UNCHANGED <<pc, fHDRStatus, SDB0RxMsg, SDB0ChannelBuffRx, buffVars, dmaVars,
                 msg_received_ch2, kicks, linuxVars, haltVars, histVars>>

\* SDB0_RxCpltCallback: likewise for the buffer messages.
RxBuffer ==
  /\ pc = "drain"
  /\ rvq # <<>> /\ Head(rvq).ept = "sdb"
  /\ rvq' = Tail(rvq)
  /\ SDB0ChannelBuffRx' = [id |-> Head(rvq).id, addr |-> Head(rvq).addr]
  /\ SDB0RxMsg' = "SET"
  /\ UNCHANGED <<pc, fHDRStatus, VirtUart0RxMsg, VirtUart0ChannelBuffRx, buffVars, dmaVars,
                 msg_received_ch2, kicks, linuxVars, haltVars, histVars>>

Drained ==
  /\ pc = "drain"
  /\ rvq = <<>>
  /\ pc' = "ack"
  /\ UNCHANGED <<fHDRStatus, VirtUart0RxMsg, VirtUart0ChannelBuffRx, SDB0RxMsg,
                 SDB0ChannelBuffRx, buffVars, dmaVars, ipcVars, linuxVars, haltVars, histVars>>

\* The flag is cleared after the processing, whatever happened meanwhile.
ClearFlag ==
  /\ pc = "ack"
  /\ msg_received_ch2' = "RX_NO_MSG"
  /\ pc' = "cmd"
  /\ UNCHANGED <<fHDRStatus, VirtUart0RxMsg, VirtUart0ChannelBuffRx, SDB0RxMsg,
                 SDB0ChannelBuffRx, buffVars, dmaVars, rvq, kicks, linuxVars, haltVars, histVars>>

------------------------------------------------------------------------------
(* Main loop, second part: treatRxCommand.                                  *)

NoCommand ==
  /\ pc = "cmd" /\ VirtUart0RxMsg = "RESET"
  /\ pc' = "sdb"
  /\ UNCHANGED <<fHDRStatus, VirtUart0RxMsg, VirtUart0ChannelBuffRx, SDB0RxMsg,
                 SDB0ChannelBuffRx, buffVars, dmaVars, ipcVars, linuxVars, haltVars, histVars>>

Treat(c) ==
  /\ pc = "cmd" /\ VirtUart0RxMsg = "SET"
  /\ VirtUart0ChannelBuffRx = c
  /\ VirtUart0RxMsg' = "RESET"
  /\ UNCHANGED <<VirtUart0ChannelBuffRx, SDB0RxMsg, SDB0ChannelBuffRx, buffVars, dmaVars,
                 ipcVars, linuxVars, haltVars, starts, announced>>

\* Mutant: a start is accepted in every status.
StartAllowedAlways ==
  /\ Treat("S")
  /\ pc' = "setstart"
  /\ UNCHANGED <<fHDRStatus, earlyExits>>

\* The status is tested here and written in SetStart: an interrupt fits between.
StartAllowed ==
  /\ Treat("S")
  /\ fHDRStatus = "IDLE"
  /\ pc' = "setstart"
  /\ UNCHANGED <<fHDRStatus, earlyExits>>

StartRefused ==
  /\ Treat("S")
  /\ fHDRStatus # "IDLE"
  /\ pc' = "sdb"
  /\ UNCHANGED <<fHDRStatus, earlyExits>>

SetStart ==
  /\ pc = "setstart"
  /\ fHDRStatus' = "START"
  /\ starts' = starts + 1
  /\ pc' = "sdb"
  /\ UNCHANGED <<VirtUart0RxMsg, VirtUart0ChannelBuffRx, SDB0RxMsg, SDB0ChannelBuffRx,
                 buffVars, dmaVars, ipcVars, linuxVars, haltVars, announced, earlyExits>>

\* Accepted in every status, even before the buffers are known.
ExitCommand ==
  /\ Treat("E")
  /\ fHDRStatus' = "ABORT"
  /\ earlyExits' = IF mArrayDdrBuffCount = DdrCnt THEN earlyExits ELSE earlyExits + 1
  /\ pc' = "sdb"

\* "R" and every unknown command are only answered.
OtherCommand ==
  /\ Treat("R")
  /\ pc' = "sdb"
  /\ UNCHANGED <<fHDRStatus, earlyExits>>

------------------------------------------------------------------------------
(* Main loop, third part: treatSDBEvent.                                    *)

NoSdbEvent ==
  /\ pc = "sdb" /\ SDB0RxMsg = "RESET"
  /\ pc' = "fsm"
  /\ UNCHANGED <<fHDRStatus, VirtUart0RxMsg, VirtUart0ChannelBuffRx, SDB0RxMsg,
                 SDB0ChannelBuffRx, buffVars, dmaVars, ipcVars, linuxVars, haltVars, histVars>>

\* Mutant: any index from 0 to 3 will do.
AwaitedAny(b) == b.id \in 0 .. 3

\* The index must be a digit from 0 to 3 and the one awaited.
Awaited(b) == b.id \in 0 .. 3 /\ b.id = mArrayDdrBuffCount

\* Mutant: the count is incremented before the address is stored.
AcceptBufferCounted ==
  /\ pc = "sdb" /\ SDB0RxMsg = "SET"
  /\ Awaited(SDB0ChannelBuffRx)
  /\ SDB0RxMsg' = "RESET"
  /\ mArrayDdrBuffCount' = mArrayDdrBuffCount + 1
  /\ mArrayDdrBuff' = [i \in DOMAIN mArrayDdrBuff |->
                         IF i = mArrayDdrBuffCount' THEN SDB0ChannelBuffRx.addr ELSE mArrayDdrBuff[i]]
  /\ fHDRStatus' = IF mArrayDdrBuffCount' = DdrCnt THEN "IDLE" ELSE fHDRStatus
  /\ pc' = "fsm"
  /\ UNCHANGED <<VirtUart0RxMsg, VirtUart0ChannelBuffRx, SDB0ChannelBuffRx, mArrayDdrBuffIndex,
                 dmaVars, ipcVars, linuxVars, haltVars, histVars>>

AcceptBuffer ==
  /\ pc = "sdb" /\ SDB0RxMsg = "SET"
  /\ Awaited(SDB0ChannelBuffRx)
  /\ SDB0RxMsg' = "RESET"
  /\ mArrayDdrBuff' = [mArrayDdrBuff EXCEPT ![mArrayDdrBuffCount] = SDB0ChannelBuffRx.addr]
  /\ mArrayDdrBuffCount' = mArrayDdrBuffCount + 1
  /\ fHDRStatus' = IF mArrayDdrBuffCount' = DdrCnt THEN "IDLE" ELSE fHDRStatus
  /\ pc' = "fsm"
  /\ UNCHANGED <<VirtUart0RxMsg, VirtUart0ChannelBuffRx, SDB0ChannelBuffRx, mArrayDdrBuffIndex,
                 dmaVars, ipcVars, linuxVars, haltVars, histVars>>

RejectBuffer ==
  /\ pc = "sdb" /\ SDB0RxMsg = "SET"
  /\ ~Awaited(SDB0ChannelBuffRx)
  /\ SDB0RxMsg' = "RESET"
  /\ pc' = "fsm"
  /\ UNCHANGED <<fHDRStatus, VirtUart0RxMsg, VirtUart0ChannelBuffRx, SDB0ChannelBuffRx,
                 buffVars, dmaVars, ipcVars, linuxVars, haltVars, histVars>>

------------------------------------------------------------------------------
(* Main loop, last part: the switch of LAStateMachine.                      *)

Fsm(status, next) ==
  /\ pc = "fsm"
  /\ fHDRStatus \in status
  /\ pc' = next
  /\ UNCHANGED <<VirtUart0RxMsg, VirtUart0ChannelBuffRx, SDB0RxMsg, SDB0ChannelBuffRx,
                 mArrayDdrBuff, mArrayDdrBuffCount, ipcVars, linuxVars, haltVars, starts, earlyExits>>

FsmRest ==
  /\ Fsm({"INIT", "IDLE", "WAIT"}, "poll")
  /\ UNCHANGED <<fHDRStatus, mArrayDdrBuffIndex, dmaVars, announced>>

FsmStart ==
  /\ Fsm({"START"}, "arm")
  /\ fHDRStatus' = "WAIT"
  /\ UNCHANGED <<mArrayDdrBuffIndex, dmaVars, announced>>

\* The buffer a transfer is started to; the index is not checked.
Target == IF mArrayDdrBuffIndex < DdrCnt THEN mArrayDdrBuff[mArrayDdrBuffIndex] ELSE Wild

\* HAL_DMA_Start_IT on an unlocked handle that is ready.
Arm ==
  /\ pc = "arm"
  /\ hdma.Lock = "UNLOCKED" /\ hdma.State = "READY"
  /\ hdma' = [State |-> "BUSY", Lock |-> "LOCKED"]
  /\ stream' = "on" /\ dst' = Target /\ fill' = NoFill
  /\ pc' = "poll"
  /\ UNCHANGED <<fHDRStatus, VirtUart0RxMsg, VirtUart0ChannelBuffRx, SDB0RxMsg,
                 SDB0ChannelBuffRx, buffVars, flag, ipcVars, linuxVars, haltVars, histVars>>

\* HAL_DMA_Start_IT refuses: locked (lock kept), or not ready (lock released).
ArmRefused ==
  /\ pc = "arm"
  /\ hdma.Lock = "LOCKED" \/ hdma.State # "READY"
  /\ fHDRStatus' = "ABORT"
  /\ pc' = "poll"
  /\ UNCHANGED <<VirtUart0RxMsg, VirtUart0ChannelBuffRx, SDB0RxMsg, SDB0ChannelBuffRx,
                 buffVars, dmaVars, ipcVars, linuxVars, haltVars, histVars>>

\* The filled buffer is announced to Linux and the next one becomes current.
FsmDone ==
  /\ Fsm({"DONE"}, "poll")
  /\ fHDRStatus' = "IDLE"
  /\ announced' = announced + 1
  /\ mArrayDdrBuffIndex' = IF mArrayDdrBuffIndex + 1 = mArrayDdrBuffCount
                           THEN 0 ELSE mArrayDdrBuffIndex + 1
  /\ UNCHANGED dmaVars

\* Mutant: the state machine goes idle without aborting the transfer.
FsmAbortSkipped ==
  /\ Fsm({"ABORT"}, "setidle")
  /\ UNCHANGED <<fHDRStatus, mArrayDdrBuffIndex, dmaVars, announced>>

\* HAL_DMA_Abort_IT tests the state of the handle ...
FsmAbort ==
  /\ Fsm({"ABORT"}, IF hdma.State = "BUSY" THEN "abortset" ELSE "setidle")
  /\ UNCHANGED <<fHDRStatus, mArrayDdrBuffIndex, dmaVars, announced>>

\* ... and then writes it and disables the stream, which raises TC when it ran.
AbortSet ==
  /\ pc = "abortset"
  /\ hdma' = [hdma EXCEPT !.State = "ABORT"]
  /\ stream' = "off"
  /\ flag' = IF stream = "on" THEN "TC" ELSE flag
  /\ pc' = "setidle"
  /\ UNCHANGED <<fHDRStatus, VirtUart0RxMsg, VirtUart0ChannelBuffRx, SDB0RxMsg,
                 SDB0ChannelBuffRx, buffVars, dst, fill, ipcVars, linuxVars, haltVars, histVars>>

SetIdle ==
  /\ pc = "setidle"
  /\ fHDRStatus' = "IDLE"
  /\ pc' = "poll"
  /\ UNCHANGED <<VirtUart0RxMsg, VirtUart0ChannelBuffRx, SDB0RxMsg, SDB0ChannelBuffRx,
                 buffVars, dmaVars, ipcVars, linuxVars, haltVars, histVars>>

MainLoop ==
  \/ Poll \/ RxCommand \/ RxBuffer \/ Drained \/ ClearFlag
  \/ NoCommand \/ StartAllowed \/ StartRefused \/ SetStart \/ ExitCommand \/ OtherCommand
  \/ NoSdbEvent \/ AcceptBuffer \/ RejectBuffer
  \/ FsmRest \/ FsmStart \/ Arm \/ ArmRefused \/ FsmDone \/ FsmAbort \/ AbortSet \/ SetIdle

Next == Linux \/ IpccNewMsg \/ CoproSync_ShutdownCb \/ Dma \/ MainLoop

Spec == Init /\ [][Next]_vars

------------------------------------------------------------------------------
(* Properties.                                                              *)

FlagStatus == {"RESET", "SET"}
PcType == {"poll", "drain", "ack", "cmd", "setstart", "sdb", "fsm", "arm",
           "abortset", "setidle"}
Status == {"INIT", "IDLE", "START", "WAIT", "DONE", "ABORT"}
Handle == [State : {"READY", "BUSY", "ABORT"}, Lock : {"UNLOCKED", "LOCKED"}]
Place  == Addr \cup {Null, Wild}

\* Types, with the one bound the C types do not give: mArrayDdrBuffCount never
\* passes the size of mArrayDdrBuff, though every session of Linux announces
\* its buffers again (treatSDBEvent).
TypeOK ==
  /\ pc \in PcType /\ fHDRStatus \in Status
  /\ VirtUart0RxMsg \in FlagStatus /\ VirtUart0ChannelBuffRx \in Cmds \cup {"none"}
  /\ SDB0RxMsg \in FlagStatus
  /\ SDB0ChannelBuffRx \in [id : 0 .. NbBuf, addr : Addr \cup {Null}]
  /\ mArrayDdrBuff \in [0 .. DdrCnt - 1 -> Addr \cup {Null}]
  /\ mArrayDdrBuffIndex \in Nat /\ mArrayDdrBuffCount \in 0 .. DdrCnt
  /\ msg_received_ch2 \in {"RX_NO_MSG", "RX_NEW_MSG"}
  /\ hdma \in Handle
  /\ stream \in {"on", "off"} /\ flag \in {"none", "TC", "TE"}
  /\ dst \in Place /\ fill \in Place \cup {NoFill}
  /\ dmaIrq \in {"enabled", "disabled"} /\ shutdown \in {"none", "acked"}
  /\ rvq \in Seq(Message) /\ kicks \in Nat
  /\ linuxBufs \in Seq(Addr) /\ allocated \in 0 .. MaxAddr /\ sent \in Nat
  /\ starts \in Nat /\ announced \in Nat /\ earlyExits \in Nat

\* A completion interrupt is still to come for the transfer in flight.
Completable == hdma.State = "BUSY" /\ (stream = "on" \/ flag = "TC")

\* The DMA only ever writes to a buffer Linux has announced, unless an "E" was
\* treated before the buffers were known (that "E" makes the machine idle, and
\* a start then writes to physical address 0).
TargetKnown ==
  stream = "on" /\ earlyExits = 0 =>
    \E i \in 0 .. mArrayDdrBuffCount - 1 : dst = mArrayDdrBuff[i] /\ dst # Null

\* In DONE the buffer about to be announced is the one that the last complete
\* transfer filled: no abort, error or late interrupt can forge a DONE.
DoneMeansFilled == fHDRStatus = "DONE" /\ earlyExits = 0 => fill = Target

\* While the machine is idle, or asked to start, no completion can come from an
\* earlier transfer and change the status behind the back of the main loop.
IdleIsQuiet == fHDRStatus \in {"INIT", "IDLE", "START"} /\ earlyExits = 0 => ~Completable

\* A locked DMA handle always has an interrupt to come that will unlock it.
LockIsReleased == hdma.Lock = "LOCKED" => stream = "on" \/ flag # "none"

\* A start is answered by at most one announcement, whatever is aborted, refused
\* or completed late.
AnnouncedOnce == announced =< starts

\* main.c:298 "Deinit the peripherals", main.c:301 "When ready, notify the remote
\* processor that we can be shut down": nothing writes to memory any more.
ShutdownQuiet == shutdown = "acked" => stream = "off"
==============================================================================
