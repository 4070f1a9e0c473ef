-------------------------- MODULE HdrFirmware_proofs --------------------------
(***************************************************************************)
(* Proofs about HdrFirmware: the safety properties of the sampling state   *)
(* machine hold for every number of buffers, commands and sessions.        *)
(* IInv is the inductive invariant; its parts are named below.             *)
(***************************************************************************)
EXTENDS HdrFirmware, TLAPS

\* A buffer message not yet treated is one that Linux sent.
SlotSent == SDB0RxMsg = "SET" => SDB0ChannelBuffRx \in [id : 0 .. NbBuf - 1, addr : Addr]

\* The addresses stored so far are addresses of Linux.
Stored == \A i \in 0 .. mArrayDdrBuffCount - 1 : mArrayDdrBuff[i] # Null

\* The HAL handle and the hardware agree.
HandleInv ==
  /\ stream = "on" => flag = "none" /\ hdma.State = "BUSY" /\ hdma.Lock = "LOCKED"
  /\ flag # "none" => hdma.State # "READY" /\ hdma.Lock = "LOCKED"
  /\ flag = "TC" /\ hdma.State = "BUSY" => fill = dst
  /\ LockIsReleased

\* Nothing but an early exit moves the machine before all buffers are known.
Ordered ==
  earlyExits = 0 =>
    /\ mArrayDdrBuffIndex < DdrCnt
    /\ mArrayDdrBuffCount # DdrCnt =>
         /\ fHDRStatus = "INIT" /\ ~Completable
         /\ pc \notin {"setstart", "arm", "abortset", "setidle"}
    /\ mArrayDdrBuffCount = DdrCnt => fHDRStatus # "INIT"

\* While a completion may still come the machine waits for it or aborts it.
Awaiting ==
  earlyExits = 0 =>
    /\ Completable => /\ fHDRStatus \in {"WAIT", "ABORT"}
                      /\ pc \notin {"setstart", "arm", "setidle"}
                      /\ dst = Target
    /\ pc = "setstart" => fHDRStatus = "IDLE"
    /\ pc = "arm" => fHDRStatus = "WAIT"

One(b) == IF b THEN 1 ELSE 0

\* Every announcement, past or still possible, has a start of its own.
Counted ==
  announced + One(fHDRStatus = "START") + One(pc = "arm") + One(Completable)
            + One(fHDRStatus = "DONE") =< starts

IInv == /\ TypeOK /\ SlotSent /\ Stored /\ HandleInv
        /\ Ordered /\ Awaiting /\ DoneMeansFilled /\ Counted

------------------------------------------------------------------------------
(* Types first: the bound on mArrayDdrBuffCount needs SlotSent.             *)

Typed == TypeOK /\ SlotSent

LEMMA TypedInit == Init => Typed
  <1> SUFFICES ASSUME Init PROVE Typed
    OBVIOUS
  <1> USE HdrAssumption DEF Init
  <1>1. rvq \in Seq(Message) /\ linuxBufs \in Seq(Addr)
    OBVIOUS
  <1>2. mArrayDdrBuff \in [0 .. DdrCnt - 1 -> Addr \cup {Null}]
    OBVIOUS
  <1>3. SDB0ChannelBuffRx \in [id : 0 .. NbBuf, addr : Addr \cup {Null}]
    BY DEF NoBuf
  <1>4. hdma \in Handle /\ dst \in Place /\ fill \in Place \cup {NoFill}
    BY DEF Handle, Place
  <1> QED
    BY <1>1, <1>2, <1>3, <1>4 DEF Typed, TypeOK, SlotSent, PcType, Status, FlagStatus

LEMMA TypedStep == Typed /\ [Next]_vars => Typed'
  <1> SUFFICES ASSUME Typed, [Next]_vars PROVE Typed'
    OBVIOUS
  <1> USE HdrAssumption DEF Typed, TypeOK, SlotSent, PcType, Status, FlagStatus, Handle, Place,
          loopVars, buffVars, dmaVars, ipcVars, linuxVars, haltVars, histVars
  <1>1. ASSUME NEW c \in Cmds, SendCommand(c) PROVE Typed'
    BY <1>1 DEF SendCommand, SendToM4, Message
  <1>2. CASE SendBuffer
    <2> DEFINE m == [ept |-> "sdb", id |-> Len(linuxBufs), addr |-> allocated + 1]
    <2>1. allocated + 1 \in 1 .. MaxAddr /\ Len(linuxBufs) \in 0 .. NbBuf - 1
      BY <1>2 DEF SendBuffer
    <2>2. m \in Message
      BY <2>1 DEF Message, Addr
    <2>3. rvq' = Append(rvq, m) /\ linuxBufs' = Append(linuxBufs, allocated + 1)
      BY <1>2 DEF SendBuffer, SendToM4
    <2>4. rvq' \in Seq(Message) /\ linuxBufs' \in Seq(Addr) /\ allocated' \in 0 .. MaxAddr
      <3> HIDE DEF m
      <3> QED
        BY <2>1, <2>2, <2>3, <1>2 DEF SendBuffer, Addr
    <2> QED
      BY <1>2, <2>4 DEF SendBuffer, SendToM4
  <1>3. CASE CloseSession
    BY <1>3 DEF CloseSession
  <1>4. CASE IpccNewMsg
    BY <1>4 DEF IpccNewMsg
  <1>5. CASE CoproSync_ShutdownCb
    BY <1>5 DEF CoproSync_ShutdownCb
  <1>6. CASE StreamCompletes
    BY <1>6 DEF StreamCompletes
  <1>7. CASE StreamFails
    BY <1>7 DEF StreamFails
  <1>8. CASE IrqAborted
    BY <1>8 DEF IrqAborted, DmaIrq
  <1>9. CASE IrqComplete
    BY <1>9 DEF IrqComplete, DmaIrq
  <1>10. CASE IrqError
    BY <1>10 DEF IrqError, DmaIrq
  <1>11. CASE Poll
    BY <1>11 DEF Poll
  <1>12. CASE RxCommand
    <2>1. Head(rvq) \in Message /\ rvq' \in Seq(Message)
      BY <1>12 DEF RxCommand
    <2>2. VirtUart0ChannelBuffRx' \in Cmds
      BY <1>12, <2>1 DEF RxCommand, Message
    <2> QED
      BY <1>12, <2>1, <2>2 DEF RxCommand
  <1>13. CASE RxBuffer
    <2>1. Head(rvq) \in Message /\ rvq' \in Seq(Message)
      BY <1>13 DEF RxBuffer
    <2>2. SDB0ChannelBuffRx' \in [id : 0 .. NbBuf - 1, addr : Addr]
      BY <1>13, <2>1 DEF RxBuffer, Message
    <2> QED
      BY <1>13, <2>1, <2>2 DEF RxBuffer
  <1>14. CASE Drained
    BY <1>14 DEF Drained
  <1>15. CASE ClearFlag
    BY <1>15 DEF ClearFlag
  <1>16. CASE NoCommand
    BY <1>16 DEF NoCommand
  <1>17. CASE StartAllowed
    BY <1>17 DEF StartAllowed, Treat
  <1>18. CASE StartRefused
    BY <1>18 DEF StartRefused, Treat
  <1>19. CASE SetStart
    BY <1>19 DEF SetStart
  <1>20. CASE ExitCommand
    BY <1>20 DEF ExitCommand, Treat
  <1>21. CASE OtherCommand
    BY <1>21 DEF OtherCommand, Treat
  <1>22. CASE NoSdbEvent
    BY <1>22 DEF NoSdbEvent
  <1>23. CASE AcceptBuffer
    BY <1>23 DEF AcceptBuffer, Awaited
  <1>24. CASE RejectBuffer
    BY <1>24 DEF RejectBuffer
  <1>25. CASE FsmRest
    BY <1>25 DEF FsmRest, Fsm
  <1>26. CASE FsmStart
    BY <1>26 DEF FsmStart, Fsm
  <1>27. CASE Arm
    BY <1>27 DEF Arm, Target
  <1>28. CASE ArmRefused
    BY <1>28 DEF ArmRefused
  <1>29. CASE FsmDone
    BY <1>29 DEF FsmDone, Fsm
  <1>30. CASE FsmAbort
    BY <1>30 DEF FsmAbort, Fsm
  <1>31. CASE AbortSet
    BY <1>31 DEF AbortSet
  <1>32. CASE SetIdle
    BY <1>32 DEF SetIdle
  <1>33. CASE UNCHANGED vars
    BY <1>33 DEF vars
  <1> QED
    BY <1>1, <1>2, <1>3, <1>4, <1>5, <1>6, <1>7, <1>8, <1>9, <1>10, <1>11, <1>12, <1>13, <1>14, <1>15, <1>16, <1>17, <1>18, <1>19, <1>20, <1>21, <1>22, <1>23, <1>24, <1>25, <1>26, <1>27, <1>28, <1>29, <1>30, <1>31, <1>32, <1>33 DEF Next, Linux, Dma, MainLoop
\* Theorem: the types of HdrFirmware, and mArrayDdrBuffCount within the array.
THEOREM TypeCorrect == Spec => []TypeOK
  <1>1. Typed => TypeOK
    BY DEF Typed
  <1> QED
    BY <1>1, TypedInit, TypedStep, PTL DEF Spec

------------------------------------------------------------------------------
(* The inductive invariant.                                                 *)

LEMMA IInvInit == Init => IInv
  <1> SUFFICES ASSUME Init PROVE IInv
    OBVIOUS
  <1>1. Typed
    BY TypedInit
  <1>2. Stored /\ HandleInv /\ DoneMeansFilled
    BY HdrAssumption DEF Init, Stored, HandleInv, LockIsReleased, DoneMeansFilled
  <1>3. Ordered /\ Awaiting /\ Counted
    BY HdrAssumption DEF Init, Ordered, Awaiting, Counted, Completable, One
  <1> QED
    BY <1>1, <1>2, <1>3 DEF IInv, Typed

LEMMA IInvStep == IInv /\ [Next]_vars => IInv'
  <1> SUFFICES ASSUME IInv, [Next]_vars PROVE IInv'
    OBVIOUS
  <1>0. Typed'
    BY TypedStep DEF IInv, Typed
  <1> USE HdrAssumption, <1>0
          DEF IInv, Typed, TypeOK, SlotSent, Stored, HandleInv, LockIsReleased, Ordered,
              Awaiting, DoneMeansFilled, Counted, Completable, One, Target, PcType, Status,
              FlagStatus, Handle,
              loopVars, buffVars, dmaVars, ipcVars, linuxVars, haltVars, histVars
  <1>1. CASE \E c \in Cmds : SendCommand(c)
    BY <1>1 DEF SendCommand, SendToM4
  <1>2. CASE SendBuffer
    BY <1>2 DEF SendBuffer, SendToM4
  <1>3. CASE CloseSession
    BY <1>3 DEF CloseSession
  <1>4. CASE IpccNewMsg
    BY <1>4 DEF IpccNewMsg
  <1>5. CASE CoproSync_ShutdownCb
    BY <1>5 DEF CoproSync_ShutdownCb
  <1>6. CASE StreamCompletes
    BY <1>6 DEF StreamCompletes
  <1>7. CASE StreamFails
    BY <1>7 DEF StreamFails
  <1>8. CASE IrqAborted
    BY <1>8 DEF IrqAborted, DmaIrq
  <1>9. CASE IrqComplete
    BY <1>9 DEF IrqComplete, DmaIrq
  <1>10. CASE IrqError
    BY <1>10 DEF IrqError, DmaIrq
  <1>11. CASE Poll
    BY <1>11 DEF Poll
  <1>12. CASE RxCommand
    BY <1>12 DEF RxCommand
  <1>13. CASE RxBuffer
    BY <1>13 DEF RxBuffer
  <1>14. CASE Drained
    BY <1>14 DEF Drained
  <1>15. CASE ClearFlag
    BY <1>15 DEF ClearFlag
  <1>16. CASE NoCommand
    BY <1>16 DEF NoCommand
  <1>17. CASE StartAllowed
    BY <1>17 DEF StartAllowed, Treat
  <1>18. CASE StartRefused
    BY <1>18 DEF StartRefused, Treat
  <1>19. CASE SetStart
    BY <1>19 DEF SetStart
  <1>20. CASE ExitCommand
    BY <1>20 DEF ExitCommand, Treat
  <1>21. CASE OtherCommand
    BY <1>21 DEF OtherCommand, Treat
  <1>22. CASE NoSdbEvent
    BY <1>22 DEF NoSdbEvent
  <1>23. CASE AcceptBuffer
    <2>1. /\ mArrayDdrBuffCount \in 0 .. DdrCnt - 1
          /\ mArrayDdrBuffCount' = mArrayDdrBuffCount + 1
          /\ SDB0ChannelBuffRx.addr # Null
      BY <1>23 DEF AcceptBuffer, Awaited, Addr, Null
    <2>2. Stored'
      BY <1>23, <2>1 DEF AcceptBuffer
    <2>3. HandleInv'
      BY <1>23 DEF AcceptBuffer
    <2>4. Ordered' /\ Awaiting' /\ DoneMeansFilled'
      BY <1>23, <2>1 DEF AcceptBuffer
    <2>5. Counted'
      BY <1>23 DEF AcceptBuffer
    <2> QED
      BY <2>2, <2>3, <2>4, <2>5
  <1>24. CASE RejectBuffer
    BY <1>24 DEF RejectBuffer
  <1>25. CASE FsmRest
    BY <1>25 DEF FsmRest, Fsm
  <1>26. CASE FsmStart
    BY <1>26 DEF FsmStart, Fsm
  <1>27. CASE Arm
    BY <1>27 DEF Arm
  <1>28. CASE ArmRefused
    BY <1>28 DEF ArmRefused
  <1>29. CASE FsmDone
    BY <1>29 DEF FsmDone, Fsm
  <1>30. CASE FsmAbort
    BY <1>30 DEF FsmAbort, Fsm
  <1>31. CASE AbortSet
    BY <1>31 DEF AbortSet
  <1>32. CASE SetIdle
    BY <1>32 DEF SetIdle
  <1>33. CASE UNCHANGED vars
    BY <1>33 DEF vars
  <1> QED
    BY <1>1, <1>2, <1>3, <1>4, <1>5, <1>6, <1>7, <1>8, <1>9, <1>10, <1>11, <1>12, <1>13, <1>14, <1>15, <1>16, <1>17, <1>18, <1>19, <1>20, <1>21, <1>22, <1>23, <1>24, <1>25, <1>26, <1>27, <1>28, <1>29, <1>30, <1>31, <1>32, <1>33 DEF Next, Linux, Dma, MainLoop

\* The properties the runs check follow from IInv.
LEMMA IInvImplies ==
  IInv => /\ TargetKnown /\ DoneMeansFilled /\ IdleIsQuiet
          /\ LockIsReleased /\ AnnouncedOnce
  <1> SUFFICES ASSUME IInv
               PROVE  TargetKnown /\ IdleIsQuiet /\ LockIsReleased /\ AnnouncedOnce
    BY DEF IInv
  <1>1. TargetKnown
    BY HdrAssumption DEF IInv, TypeOK, TargetKnown, HandleInv, Ordered, Awaiting, Stored, Completable, Target
  <1>2. IdleIsQuiet
    BY DEF IInv, IdleIsQuiet, Awaiting
  <1>3. LockIsReleased
    BY DEF IInv, HandleInv
  <1>4. AnnouncedOnce
    BY DEF IInv, TypeOK, Counted, One, AnnouncedOnce
  <1> QED
    BY <1>1, <1>2, <1>3, <1>4

\* Theorem: IInv holds in every reachable state.
THEOREM Invariant == Spec => []IInv
  BY IInvInit, IInvStep, PTL DEF Spec

\* Theorem: the DMA only writes to a buffer Linux announced, unless an exit was
\* treated before the buffers were known.
THEOREM TargetIsKnown == Spec => []TargetKnown
  BY Invariant, IInvImplies, PTL

\* Theorem: what is announced in DONE is what the last complete transfer filled.
THEOREM DoneIsFilled == Spec => []DoneMeansFilled
  BY Invariant, IInvImplies, PTL

\* Theorem: an idle machine is not woken by an earlier transfer.
THEOREM IdleQuiet == Spec => []IdleIsQuiet
  BY Invariant, IInvImplies, PTL

\* Theorem: a locked DMA handle has an interrupt to come.
THEOREM LockReleased == Spec => []LockIsReleased
  BY Invariant, IInvImplies, PTL

\* Theorem: at most one announcement per start.
THEOREM AnnouncedAtMostOnce == Spec => []AnnouncedOnce
  BY Invariant, IInvImplies, PTL
==============================================================================
