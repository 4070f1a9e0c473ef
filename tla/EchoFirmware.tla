----------------------------- MODULE EchoFirmware -----------------------------
(***************************************************************************)
(* The firmware of exchange_buf (CM4/Core/Src/main.c): a start on a        *)
(* virtual UART begins an SPI transfer by DMA, and its completion sends    *)
(* the two sampling buffers to Linux on UART 0.  The debug block that is   *)
(* compiled in answers the first message of UART 0 for ever instead.       *)
(*                                                                         *)
(* The SPI interrupt writes wTransferState between any two accesses of the *)
(* main loop.  The transport below is that of Rpmsg, seen from the         *)
(* application: a send fails without destination or buffer.                *)
(***************************************************************************)
EXTENDS Integers, Sequences

CONSTANTS
  Texts,     \* what Linux writes to a UART; "ST" starts a transfer
  MaxSent,   \* bound: messages of Linux
  TxBufs,    \* buffers of the vring to Linux
  RxBufs     \* buffers of the vring from Linux

ASSUME EchoAssumption ==
  "ST" \in Texts /\ MaxSent \in Nat /\ TxBufs \in Nat \ {0} /\ RxBufs \in Nat \ {0}

VARIABLES
  pc,                          \* the main loop
  wTransferState,
  VirtUart0RxMsg, VirtUart0ChannelBuffRx,
  VirtUart1RxMsg, VirtUart1ChannelBuffRx,
  hspi4,                       \* its State
  bound,                       \* UART 0 knows its destination
  rxq, toLinux,                \* the two vrings
  sent,                        \* history: messages of Linux
  completed, samples,          \* history: transfers completed, samples sent
  overlap                      \* history: a start came before the last one was answered

uartVars == <<VirtUart0RxMsg, VirtUart0ChannelBuffRx, VirtUart1RxMsg, VirtUart1ChannelBuffRx>>
linkVars == <<bound, rxq, toLinux, sent>>
histVars == <<completed, samples, overlap>>
vars == <<pc, wTransferState, uartVars, hspi4, linkVars, histVars>>

None == "none"
Uarts == {0, 1}
Sample == "sample"

Init ==
  /\ pc = "poll" /\ wTransferState = "WAIT"
  /\ VirtUart0RxMsg = "RESET" /\ VirtUart0ChannelBuffRx = None
  /\ VirtUart1RxMsg = "RESET" /\ VirtUart1ChannelBuffRx = None
  /\ hspi4 = "READY"
  /\ bound = FALSE /\ rxq = <<>> /\ toLinux = <<>> /\ sent = 0
  /\ completed = 0 /\ samples = 0 /\ overlap = FALSE

------------------------------------------------------------------------------
(* Linux.                                                                   *)

\* rpmsg_app, and whoever else writes to one of the two tty devices.
LinuxWrite(uart, text) ==
  /\ sent < MaxSent /\ Len(rxq) < RxBufs
  /\ sent' = sent + 1
  /\ rxq' = Append(rxq, [uart |-> uart, text |-> text])
  /\ UNCHANGED <<pc, wTransferState, uartVars, hspi4, bound, toLinux, histVars>>

LinuxRead ==
  /\ toLinux # <<>> /\ toLinux' = Tail(toLinux)
  /\ UNCHANGED <<pc, wTransferState, uartVars, hspi4, bound, rxq, sent, histVars>>

\* A name service message of Linux binds UART 0 as well (NsLookup of Rpmsg).
LinuxBinds ==
  /\ ~bound /\ bound' = TRUE
  /\ UNCHANGED <<pc, wTransferState, uartVars, hspi4, rxq, toLinux, sent, histVars>>

Linux == LinuxRead \/ LinuxBinds \/ \E uart \in Uarts, text \in Texts : LinuxWrite(uart, text)

------------------------------------------------------------------------------
(* The SPI interrupt; Error_Handler disables it.                            *)

SpiIrq(status) ==
  /\ pc # "Error_Handler" /\ hspi4 = "BUSY"
  /\ hspi4' = "READY"
  /\ wTransferState' = status
  /\ UNCHANGED <<pc, uartVars, linkVars, samples, overlap>>

SpiCplt  == SpiIrq("COMPLETE") /\ completed' = completed + 1
SpiError == SpiIrq("ERROR") /\ UNCHANGED completed

------------------------------------------------------------------------------
(* The main loop.                                                           *)

Go(from, to) == pc = from /\ pc' = to

\* MAILBOX_Poll finds its flag or does not: the interrupt may be on its way.
Poll ==
  /\ Go("poll", "drain") \/ Go("poll", "uart0")
  /\ UNCHANGED <<wTransferState, uartVars, hspi4, linkVars, histVars>>

\* The callbacks keep the last message of each UART.
Receive ==
  /\ pc = "drain" /\ rxq # <<>>
  /\ rxq' = Tail(rxq)
  /\ LET msg == Head(rxq)
     IN \/ /\ msg.uart = 0
           /\ VirtUart0RxMsg' = "SET" /\ VirtUart0ChannelBuffRx' = msg.text
           /\ bound' = TRUE
           /\ UNCHANGED <<VirtUart1RxMsg, VirtUart1ChannelBuffRx>>
        \/ /\ msg.uart = 1
           /\ VirtUart1RxMsg' = "SET" /\ VirtUart1ChannelBuffRx' = msg.text
           /\ UNCHANGED <<VirtUart0RxMsg, VirtUart0ChannelBuffRx, bound>>
  /\ UNCHANGED <<pc, wTransferState, hspi4, toLinux, sent, histVars>>

Received ==
  /\ rxq = <<>> /\ Go("drain", "uart0")
  /\ UNCHANGED <<wTransferState, uartVars, hspi4, linkVars, histVars>>

Uart0 ==
  /\ Go("uart0", IF VirtUart0RxMsg = "SET" THEN "echo" ELSE "uart1")
  /\ VirtUart0RxMsg' = "RESET"
  /\ UNCHANGED <<wTransferState, VirtUart0ChannelBuffRx, VirtUart1RxMsg, VirtUart1ChannelBuffRx,
                 hspi4, linkVars, histVars>>

\* A send that does not look for a buffer.
CanSendAny == bound
CanSend == bound /\ Len(toLinux) < TxBufs

\* The debug loop: a send that fails is only tried again.
Echo ==
  /\ pc = "echo" /\ CanSend
  /\ toLinux' = Append(toLinux, VirtUart0ChannelBuffRx)
  /\ UNCHANGED <<pc, wTransferState, uartVars, hspi4, bound, rxq, sent, histVars>>

Uart1 ==
  /\ Go("uart1", IF VirtUart1RxMsg = "SET" /\ VirtUart1ChannelBuffRx = "ST" THEN "start" ELSE "switch")
  /\ VirtUart1RxMsg' = "RESET"
  /\ UNCHANGED <<wTransferState, VirtUart0RxMsg, VirtUart0ChannelBuffRx, VirtUart1ChannelBuffRx,
                 hspi4, linkVars, histVars>>

Start ==
  /\ Go("start", "switch")
  /\ overlap' = (overlap \/ hspi4 = "BUSY" \/ wTransferState # "WAIT")
  /\ wTransferState' = "IDLE"
  /\ UNCHANGED <<uartVars, hspi4, linkVars, completed, samples>>

\* A switch without the case of a completed transfer.
SwitchNoComplete ==
  /\ pc = "switch"
  /\ pc' = CASE wTransferState = "IDLE"  -> "idle"
             [] wTransferState = "ERROR" -> "Error_Handler"
             [] OTHER -> "poll"
  /\ UNCHANGED <<wTransferState, uartVars, hspi4, linkVars, histVars>>

\* The switch reads wTransferState once; COMPLETE fills the buffers first.
Switch ==
  /\ pc = "switch"
  /\ pc' = CASE wTransferState = "IDLE"     -> "idle"
             [] wTransferState = "COMPLETE" -> "fill"
             [] wTransferState = "ERROR"    -> "Error_Handler"
             [] OTHER -> "poll"
  /\ UNCHANGED <<wTransferState, uartVars, hspi4, linkVars, histVars>>

\* A transfer that is marked as awaited after it was started.
IdleLate ==
  /\ Go("idle", "arm")
  /\ UNCHANGED <<wTransferState, uartVars, hspi4, linkVars, histVars>>

Idle ==
  /\ Go("idle", "arm")
  /\ wTransferState' = "WAIT"
  /\ UNCHANGED <<uartVars, hspi4, linkVars, histVars>>

\* HAL_SPI_TransmitReceive_DMA.
Arm ==
  /\ Go("arm", IF hspi4 = "READY" THEN "poll" ELSE "Error_Handler")
  /\ hspi4' = "BUSY"
  /\ UNCHANGED <<wTransferState, uartVars, linkVars, histVars>>

Fill ==
  /\ Go("fill", "send")
  /\ UNCHANGED <<wTransferState, uartVars, hspi4, linkVars, histVars>>

Send ==
  /\ Go("send", IF CanSend THEN "sent" ELSE "Error_Handler")
  /\ IF CanSend THEN toLinux' = Append(toLinux, Sample) /\ samples' = samples + 1
     ELSE UNCHANGED <<toLinux, samples>>
  /\ UNCHANGED <<wTransferState, uartVars, hspi4, bound, rxq, sent, completed, overlap>>

\* The state is left as it is, and the sample is sent again.
SentKept ==
  /\ Go("sent", "poll")
  /\ UNCHANGED <<wTransferState, uartVars, hspi4, linkVars, histVars>>

Sent ==
  /\ Go("sent", "poll")
  /\ wTransferState' = "WAIT"
  /\ UNCHANGED <<uartVars, hspi4, linkVars, histVars>>

MainLoop ==
  \/ Poll \/ Receive \/ Received \/ Uart0 \/ Echo \/ Uart1 \/ Start
  \/ Switch \/ Idle \/ Arm \/ Fill \/ Send \/ Sent

Next == Linux \/ SpiCplt \/ SpiError \/ MainLoop
Spec == Init /\ [][Next]_vars

\* The core and the SPI go on; Linux reads what it is sent.
FairSpec == Spec /\ WF_vars(MainLoop) /\ WF_vars(SpiCplt \/ SpiError) /\ WF_vars(LinuxRead)

------------------------------------------------------------------------------
(* Properties.                                                              *)

States == {"IDLE", "WAIT", "COMPLETE", "ERROR"}
TypeOK ==
  /\ pc \in {"poll", "drain", "uart0", "echo", "uart1", "start", "switch", "idle", "arm",
             "fill", "send", "sent", "Error_Handler"}
  /\ wTransferState \in States
  /\ VirtUart0RxMsg \in {"SET", "RESET"} /\ VirtUart1RxMsg \in {"SET", "RESET"}
  /\ VirtUart0ChannelBuffRx \in Texts \cup {None} /\ VirtUart1ChannelBuffRx \in Texts \cup {None}
  /\ hspi4 \in {"READY", "BUSY"} /\ bound \in BOOLEAN /\ overlap \in BOOLEAN
  /\ Len(rxq) =< RxBufs /\ Len(toLinux) =< TxBufs
  /\ toLinux \in Seq(Texts \cup {Sample})
  /\ sent \in 0..MaxSent /\ completed \in Nat /\ samples \in 0..completed

\* wTransferState accounts for the transfers, whatever the interrupt comes in
\* between: each completed one is sent once, or waits to be sent.  A start that
\* comes before the last one was answered breaks it (a completion is lost).
CompletedSentOnce ==
  ~overlap => completed - samples = IF wTransferState = "COMPLETE" /\ pc # "sent" THEN 1 ELSE 0

\* The main loop does not write to the buffers of a transfer in flight, nor does
\* it start a second one, unless a start came too early.
BuffersStable ==
  ~overlap => ~(pc \in {"fill", "send"} /\ hspi4 = "BUSY") /\ ~(pc = "arm" /\ hspi4 = "BUSY")

\* A transfer that was started ends in a sample, in the debug loop or in
\* Error_Handler, where a send to a UART with no destination leads as well.
StartAnswered ==
  hspi4 = "BUSY" /\ ~overlap ~> pc \in {"sent", "echo", "Error_Handler"} \/ overlap
==============================================================================
