------------------------- MODULE EchoFirmware_proofs -------------------------
(***************************************************************************)
(* Proofs about EchoFirmware: for every traffic and every size of the      *)
(* vrings a completed transfer is sent once, from buffers no transfer      *)
(* writes to, until a start comes before the last one was answered.        *)
(***************************************************************************)
EXTENDS EchoFirmware, TLAPS

Sending == {"fill", "send", "sent"}

\* A sample being prepared is one of a completed transfer, overlap or not.
SamplesCovered ==
  /\ samples =< completed
  /\ pc \in {"fill", "send"} \/ (wTransferState = "COMPLETE" /\ pc # "sent") => samples < completed

\* The state of the transfer, the SPI handle and the place of the main loop
\* agree: the interrupt only comes while the main loop is polling.
InStep ==
  ~overlap =>
    /\ hspi4 = "BUSY" => wTransferState = "WAIT" /\ pc \notin Sending \cup {"idle", "arm"}
    /\ pc = "idle" => wTransferState = "IDLE"
    /\ pc = "arm" => wTransferState = "WAIT"
    /\ pc \in Sending => wTransferState = "COMPLETE"

Message == [uart : Uarts, text : Texts]

\* Every message, also the one the debug loop sends back, is one Linux wrote.
Written ==
  /\ rxq \in Seq(Message)
  /\ VirtUart0RxMsg = "SET" \/ pc = "echo" => VirtUart0ChannelBuffRx \in Texts

IInv == TypeOK /\ Written /\ SamplesCovered /\ InStep /\ CompletedSentOnce

------------------------------------------------------------------------------
LEMMA IInvInit == Init => IInv
  <1> SUFFICES ASSUME Init PROVE IInv
    OBVIOUS
  <1> USE EchoAssumption DEF Init
  <1>1. rxq \in Seq(Message) /\ toLinux \in Seq(Texts \cup {Sample})
    OBVIOUS
  <1>2. Written /\ TypeOK
    <2>1. Written
      BY <1>1 DEF Written
    <2>2. samples \in 0 .. completed /\ completed \in Nat /\ sent \in 0 .. MaxSent
          /\ Len(rxq) =< RxBufs /\ Len(toLinux) =< TxBufs
      OBVIOUS
    <2>3. pc = "poll" /\ wTransferState \in States /\ hspi4 \in {"READY", "BUSY"}
          /\ bound \in BOOLEAN /\ overlap \in BOOLEAN
      BY DEF States
    <2>4. /\ VirtUart0RxMsg \in {"SET", "RESET"} /\ VirtUart1RxMsg \in {"SET", "RESET"}
          /\ VirtUart0ChannelBuffRx \in Texts \cup {None}
          /\ VirtUart1ChannelBuffRx \in Texts \cup {None}
      OBVIOUS
    <2> QED
      BY <1>1, <2>1, <2>2, <2>3, <2>4 DEF TypeOK
  <1> QED
    BY <1>2 DEF IInv, SamplesCovered, InStep, CompletedSentOnce, Sending

\* The vring to Linux and the two message slots hold what was put into them.
LEMMA LinkStep ==
  ASSUME TypeOK, Written, [Next]_vars
  PROVE  /\ Written' /\ Len(rxq') =< RxBufs
         /\ toLinux' \in Seq(Texts \cup {Sample}) /\ Len(toLinux') =< TxBufs
         /\ VirtUart0ChannelBuffRx' \in Texts \cup {None}
         /\ VirtUart1ChannelBuffRx' \in Texts \cup {None}
  <1> USE EchoAssumption DEF TypeOK, Written, uartVars, linkVars, histVars
  <1>1. ASSUME NEW uart \in Uarts, NEW text \in Texts, LinuxWrite(uart, text)
        PROVE  Written' /\ Len(rxq') =< RxBufs
    <2> DEFINE msg == [uart |-> uart, text |-> text]
    <2>1. msg \in Message
      BY DEF Message
    <2>2. rxq' = Append(rxq, msg) /\ Len(rxq) < RxBufs /\ UNCHANGED <<pc, uartVars>>
      BY <1>1 DEF LinuxWrite
    <2> HIDE DEF msg
    <2> QED
      BY <2>1, <2>2
  <1>2. CASE LinuxRead
    BY <1>2 DEF LinuxRead
  <1>3. CASE Receive
    <2> DEFINE msg == Head(rxq)
    <2>1. msg \in Message
          /\ rxq' \in Seq(Message) /\ Len(rxq') =< RxBufs
      <3>1. rxq # <<>> /\ rxq' = Tail(rxq)
        BY <1>3 DEF Receive
      <3> QED
        BY <3>1
    <2>2. msg.text \in Texts
      BY <2>1 DEF Message
    <2>3. \/ VirtUart0ChannelBuffRx' = msg.text /\ UNCHANGED VirtUart1ChannelBuffRx
          \/ VirtUart1ChannelBuffRx' = msg.text
             /\ UNCHANGED <<VirtUart0RxMsg, VirtUart0ChannelBuffRx>>
      BY <1>3 DEF Receive
    <2>4. UNCHANGED <<pc, toLinux>>
      BY <1>3 DEF Receive
    <2> HIDE DEF msg
    <2> QED
      BY <2>1, <2>2, <2>3, <2>4
  <1>4. CASE Echo
    <2>1. VirtUart0ChannelBuffRx \in Texts \cup {Sample} /\ Len(toLinux) < TxBufs
      BY <1>4 DEF Echo, CanSend
    <2>2. toLinux' = Append(toLinux, VirtUart0ChannelBuffRx) /\ UNCHANGED <<pc, uartVars, rxq>>
      BY <1>4 DEF Echo
    <2>3. toLinux' \in Seq(Texts \cup {Sample}) /\ Len(toLinux') =< TxBufs
      BY <2>1, <2>2
    <2> QED
      BY <2>2, <2>3
  <1>5. CASE Send
    BY <1>5 DEF Send, CanSend, Go, Sample
  <1>6. CASE LinuxBinds \/ SpiCplt \/ SpiError
    BY <1>6 DEF LinuxBinds, SpiCplt, SpiError, SpiIrq
  <1>7. CASE Poll \/ Received \/ Uart0 \/ Uart1 \/ Start \/ Switch \/ Idle \/ Arm \/ Fill \/ Sent
    <2>1. UNCHANGED <<rxq, toLinux, VirtUart0ChannelBuffRx, VirtUart1ChannelBuffRx>>
      BY <1>7 DEF Poll, Received, Uart0, Uart1, Start, Switch, Idle, Arm, Fill, Sent
    <2>2. (VirtUart0RxMsg' = "SET" => VirtUart0RxMsg = "SET")
          /\ (pc' = "echo" => VirtUart0RxMsg = "SET")
      BY <1>7 DEF Poll, Received, Uart0, Uart1, Start, Switch, Idle, Arm, Fill, Sent, Go
    <2> QED
      BY <2>1, <2>2
  <1>8. CASE UNCHANGED vars
    BY <1>8 DEF vars
  <1> QED
    BY <1>1, <1>2, <1>3, <1>4, <1>5, <1>6, <1>7, <1>8 DEF Next, Linux, MainLoop, LinuxWrite

LEMMA IInvStep == IInv /\ [Next]_vars => IInv'
  <1> SUFFICES ASSUME IInv, [Next]_vars PROVE IInv'
    OBVIOUS
  <1> USE EchoAssumption
  <1> DEFINE Rest == /\ Written' /\ Len(rxq') =< RxBufs
                     /\ toLinux' \in Seq(Texts \cup {Sample}) /\ Len(toLinux') =< TxBufs
                     /\ VirtUart0ChannelBuffRx' \in Texts \cup {None}
                     /\ VirtUart1ChannelBuffRx' \in Texts \cup {None}
             Goal == /\ pc' \in {"poll", "drain", "uart0", "echo", "uart1", "start", "switch",
                                 "idle", "arm", "fill", "send", "sent", "Error_Handler"}
                     /\ wTransferState' \in States
                     /\ VirtUart0RxMsg' \in {"SET", "RESET"} /\ VirtUart1RxMsg' \in {"SET", "RESET"}
                     /\ hspi4' \in {"READY", "BUSY"} /\ bound' \in BOOLEAN /\ overlap' \in BOOLEAN
                     /\ sent' \in 0 .. MaxSent /\ completed' \in Nat /\ samples' \in Nat
                     /\ SamplesCovered' /\ InStep' /\ CompletedSentOnce'
  <1>0. Rest
    BY LinkStep DEF IInv
  <1> HIDE DEF Rest
  <1>a. samples \in Nat /\ completed \in Nat
    BY DEF IInv, TypeOK
  <1>9. Goal
    <2>1. CASE Linux
      <3>1. CASE LinuxRead \/ LinuxBinds
        <4>1. UNCHANGED <<pc, wTransferState, VirtUart0RxMsg, VirtUart1RxMsg, hspi4, overlap,
                          sent, completed, samples>> /\ bound' \in BOOLEAN
          BY <3>1 DEF LinuxRead, LinuxBinds, uartVars, histVars, IInv, TypeOK
        <4> QED
          BY <4>1, <1>a DEF IInv, TypeOK, SamplesCovered, InStep, CompletedSentOnce
      <3>2. ASSUME NEW uart \in Uarts, NEW text \in Texts, LinuxWrite(uart, text) PROVE Goal
        <4>1. sent' \in 0 .. MaxSent
          BY <3>2 DEF LinuxWrite, IInv, TypeOK
        <4>2. UNCHANGED <<pc, wTransferState, VirtUart0RxMsg, VirtUart1RxMsg, hspi4, bound, overlap,
                          completed, samples>>
          BY <3>2 DEF LinuxWrite, uartVars, histVars
        <4> QED
          BY <4>1, <4>2, <1>a DEF IInv, TypeOK, SamplesCovered, InStep, CompletedSentOnce
      <3> QED
        BY <2>1, <3>1, <3>2 DEF Linux
    <2>2. CASE SpiCplt \/ SpiError
      BY <2>2, <1>a DEF SpiCplt, SpiError, SpiIrq, uartVars, linkVars,
         IInv, TypeOK, SamplesCovered, InStep, CompletedSentOnce, States, Sending
    <2>3. CASE Poll \/ Receive \/ Received \/ Uart0 \/ Echo \/ Uart1
      BY <2>3, <1>a DEF Poll, Receive, Received, Uart0, Echo, Uart1, Go, uartVars, linkVars, histVars,
         IInv, TypeOK, SamplesCovered, InStep, CompletedSentOnce, Sending
    <2>4. CASE Start
      BY <2>4, <1>a DEF Start, Go, uartVars, linkVars,
         IInv, TypeOK, SamplesCovered, InStep, CompletedSentOnce, States, Sending
    <2>5. CASE Switch
      BY <2>5, <1>a DEF Switch, uartVars, linkVars, histVars,
         IInv, TypeOK, SamplesCovered, InStep, CompletedSentOnce, States, Sending
    <2>6. CASE Idle \/ Arm
      BY <2>6, <1>a DEF Idle, Arm, Go, uartVars, linkVars, histVars,
         IInv, TypeOK, SamplesCovered, InStep, CompletedSentOnce, States, Sending
    <2>7. CASE Fill \/ Send \/ Sent
      BY <2>7, <1>a DEF Fill, Send, Sent, Go, uartVars, linkVars, histVars,
         IInv, TypeOK, SamplesCovered, InStep, CompletedSentOnce, States, Sending
    <2>8. CASE UNCHANGED vars
      BY <2>8, <1>a DEF vars, uartVars, linkVars, histVars,
         IInv, TypeOK, SamplesCovered, InStep, CompletedSentOnce
    <2> QED
      BY <2>1, <2>2, <2>3, <2>4, <2>5, <2>6, <2>7, <2>8 DEF Next, MainLoop, IInv
  <1>10. samples' \in 0 .. completed'
    BY <1>9 DEF SamplesCovered
  <1> QED
    BY <1>0, <1>9, <1>10 DEF IInv, TypeOK, Rest

------------------------------------------------------------------------------
THEOREM Invariant == Spec => []IInv
  BY IInvInit, IInvStep, PTL DEF Spec

\* Types: no vring holds more than its buffers, and no more samples were sent
\* than transfers completed, overlapping starts included.
THEOREM TypeCorrect == Spec => []TypeOK
  <1>1. IInv => TypeOK
    BY DEF IInv
  <1> QED
    BY <1>1, Invariant, PTL

\* main.c:231: writing WAIT after the sample was sent loses no completion, as
\* long as no start came before the last one was answered.
THEOREM SentOnce == Spec => []CompletedSentOnce
  <1>1. IInv => CompletedSentOnce
    BY DEF IInv
  <1> QED
    BY <1>1, Invariant, PTL

\* main.c:205-231: under the same condition the main loop neither fills the
\* buffers of a transfer in flight nor starts a second one.
THEOREM Stable == Spec => []BuffersStable
  <1>1. IInv => BuffersStable
    BY DEF IInv, InStep, BuffersStable, Sending
  <1> QED
    BY <1>1, Invariant, PTL
==============================================================================
