--------------------------- MODULE SdbSystem_proofs ---------------------------
(***************************************************************************)
(* Proofs about SdbSystem: what holds of the application, the driver and   *)
(* the firmware together, for every number of buffers and every bound.     *)
(*                                                                         *)
(* The invariant is built in three layers: the types and the calm state    *)
(* machine (no abort is ever asked for), the buffers (those the firmware   *)
(* knows are those of the open session), and the sample under way (one at  *)
(* a time, at one place).                                                  *)
(***************************************************************************)
EXTENDS SdbSystem, HdrFirmware_proofs

sysState == <<vars, sysVars>>

\* What is in a queue.
Elems(q) == {q[k] : k \in 1 .. Len(q)}

LEMMA AppendElems ==
  ASSUME NEW S, NEW q \in Seq(S), NEW m \in S
  PROVE  Elems(Append(q, m)) = Elems(q) \cup {m}
  <1>1. Len(Append(q, m)) = Len(q) + 1 /\ Append(q, m)[Len(q) + 1] = m
    OBVIOUS
  <1>2. \A k \in 1 .. Len(q) : Append(q, m)[k] = q[k]
    OBVIOUS
  <1>3. Len(q) \in Nat
    OBVIOUS
  <1>4. 1 .. Len(q) + 1 = (1 .. Len(q)) \cup {Len(q) + 1}
    BY <1>3
  <1> QED
    BY <1>1, <1>2, <1>3, <1>4 DEF Elems

LEMMA TailElems ==
  ASSUME NEW S, NEW q \in Seq(S), q # <<>>
  PROVE  Head(q) \in Elems(q) /\ Elems(Tail(q)) \subseteq Elems(q)
  <1>1. Len(q) \in Nat \ {0} /\ Head(q) = q[1]
    OBVIOUS
  <1>2. Len(Tail(q)) = Len(q) - 1 /\ \A k \in 1 .. Len(q) - 1 : Tail(q)[k] = q[k + 1]
    OBVIOUS
  <1> QED
    BY <1>1, <1>2 DEF Elems

LEMMA EmptyElems == Elems(<<>>) = {}
  BY DEF Elems

------------------------------------------------------------------------------
(* Every step of the system is one of the firmware, or starts it anew.      *)

LEMMA EitherBoots == [SysNext]_sysState => StartFirmware \/ [Next]_vars
  <1> SUFFICES ASSUME [SysNext]_sysState PROVE StartFirmware \/ [Next]_vars
    OBVIOUS
  <1>1. FreeBuffers => [Next]_vars
    <2>1. FreeBuffers /\ linuxBufs # <<>> => CloseSession
      BY DEF FreeBuffers, CloseSession
    <2>2. FreeBuffers /\ linuxBufs = <<>> => UNCHANGED vars
      BY DEF FreeBuffers, vars, linuxVars
    <2> QED
      BY <2>1, <2>2 DEF Next, Linux
  <1>2. Deaths \/ ExitSteps => [Next]_vars
    BY <1>1 DEF Deaths, Signal, Kill, Segfault, SizeFails, ExitSteps, Unmap, CloseDevice,
                RequestStop, StopFirmware, Quiet, Next
  <1>3. FirmwareRunning => UNCHANGED vars
    BY DEF FirmwareRunning, NewProcess, vars
  <1>4. MainThread => [Next]_vars
    BY SystemAssumption
       DEF MainThread, OpenTty, MapBuffer, StartSampling, SendStart, SetSamp, Quiet, Next, Linux
  <1>5. SdbThread => UNCHANGED vars
    BY DEF SdbThread, PollEvents, PollNothing, ReadEvent, GetDataSize, WriteFile, NextBuffer, Quiet
  <1>6. Firmware => Next
    BY DEF Firmware, LoopStep, NewMsgStep, IrqStep, StreamStep, Next, Dma
  <1>7. DriverCb => UNCHANGED vars
    BY DEF DriverCb
  <1>8. UNCHANGED sysState => UNCHANGED vars
    BY DEF sysState
  <1> QED
    BY <1>2, <1>3, <1>4, <1>5, <1>6, <1>7, <1>8 DEF SysNext

\* A firmware that boots is in its initial state, whatever Linux has allocated.
LEMMA IInvBoot == IInv /\ StartFirmware => IInv'
  <1> SUFFICES ASSUME IInv, StartFirmware PROVE IInv'
    OBVIOUS
  <1> USE HdrAssumption DEF StartFirmware, Boot, NewProcess, linuxVars
  <1>1. rvq' \in Seq(Message)
    OBVIOUS
  <1>2. mArrayDdrBuff' \in [0 .. DdrCnt - 1 -> Addr \cup {Null}]
    OBVIOUS
  <1>3. SDB0ChannelBuffRx' \in [id : 0 .. NbBuf, addr : Addr \cup {Null}]
    BY DEF NoBuf
  <1>4. hdma' \in Handle /\ dst' \in Place /\ fill' \in Place \cup {NoFill}
    BY DEF Handle, Place
  <1>5. TypeOK' /\ SlotSent'
    BY <1>1, <1>2, <1>3, <1>4 DEF IInv, TypeOK, SlotSent, PcType, Status, FlagStatus
  <1>6. Stored' /\ HandleInv' /\ DoneMeansFilled'
    BY DEF Stored, HandleInv, LockIsReleased, DoneMeansFilled
  <1>7. Ordered' /\ Awaiting' /\ Counted'
    BY DEF Ordered, Awaiting, Counted, Completable, One
  <1> QED
    BY <1>5, <1>6, <1>7 DEF IInv

LEMMA IInvSystem == IInv /\ [SysNext]_sysState => IInv'
  BY EitherBoots, IInvBoot, IInvStep

------------------------------------------------------------------------------
(* First layer: the types, and a state machine that is never aborted.       *)

\* The application never writes "E".
NoExit ==
  /\ earlyExits = 0 /\ VirtUart0ChannelBuffRx # "E"
  /\ \A m \in Elems(rvq) : m.ept = "tty" => m.cmd # "E"

\* No transfer fails and none is refused: a busy handle completes.
NoAbort ==
  /\ fHDRStatus # "ABORT" /\ pc \notin {"abortset", "setidle"}
  /\ flag # "TE" /\ hdma.State # "ABORT"
  /\ hdma.State = "BUSY" => Completable

CountKnown == mArrayDdrBuffCount =< NbBuf

AppTyped ==
  /\ fw \in {"off", "running"}
  /\ main \in {"none", "tty", "open", "loop", "send", "again", "unmap", "close", "stop"}
  /\ thread \in {"top", "poll", "size", "write", "next"}
  /\ mMachineState \in {"IDLE", "SAMP"} /\ mDdrBuffAwaited \in Index
  /\ fMappedData \in BOOLEAN /\ got \in Sizes /\ orphaned \in BOOLEAN

EntryTyped ==
  /\ efd \in [Index -> Nat] /\ writing_size \in [Index -> Sizes]
  /\ toLinux \in Seq(Index) /\ dropped \in 0 .. MaxDropped
  /\ holds \in [Index -> Nat] /\ filled \in Nat /\ stored \in Nat

Calm == IInv /\ NoExit /\ NoAbort /\ CountKnown

LEMMA CalmInit == SysInit => Calm
  BY IInvInit, EmptyElems, SystemAssumption, HdrAssumption
     DEF SysInit, Init, Calm, NoExit, NoAbort, CountKnown

\* What Linux sends.
LEMMA NoExitSent ==
  ASSUME NoExit, rvq \in Seq(Message), NEW m \in Message, SendToM4(m), m.ept = "tty" => m.cmd # "E"
  PROVE  NoExit'
  <1>1. rvq' = Append(rvq, m) /\ UNCHANGED <<earlyExits, VirtUart0ChannelBuffRx>>
    BY DEF SendToM4, histVars, loopVars
  <1>2. Elems(rvq') = Elems(rvq) \cup {m}
    BY <1>1, AppendElems
  <1> QED
    BY <1>1, <1>2 DEF NoExit

LEMMA NoExitLoop == Calm /\ MainLoop => NoExit'
  <1> SUFFICES ASSUME Calm, MainLoop PROVE NoExit'
    OBVIOUS
  <1>1. rvq \in Seq(Message)
    BY DEF Calm, IInv, TypeOK
  <1>2. rvq # <<>> =>
          /\ \A m \in Elems(Tail(rvq)) : m.ept = "tty" => m.cmd # "E"
          /\ Head(rvq).ept = "tty" => Head(rvq).cmd # "E"
    <2>1. rvq # <<>> => Head(rvq) \in Elems(rvq) /\ Elems(Tail(rvq)) \subseteq Elems(rvq)
      BY <1>1, TailElems
    <2> QED
      BY <2>1 DEF Calm, NoExit
  <1>3. RxCommand \/ RxBuffer => NoExit'
    BY <1>2 DEF RxCommand, RxBuffer, histVars, Calm, NoExit
  <1>4. ~ExitCommand
    BY DEF ExitCommand, Treat, Calm, NoExit
  <1>5. UNCHANGED <<rvq, VirtUart0ChannelBuffRx, earlyExits>> => NoExit'
    BY DEF Calm, NoExit
  <1>6. Poll \/ Drained \/ ClearFlag \/ NoCommand \/ StartAllowed \/ StartRefused \/ SetStart \/ OtherCommand
          => NoExit'
    BY <1>5 DEF Poll, Drained, ClearFlag, NoCommand, StartAllowed, StartRefused, SetStart, OtherCommand,
                Treat, ipcVars, histVars
  <1>7. NoSdbEvent \/ AcceptBuffer \/ RejectBuffer => NoExit'
    BY <1>5 DEF NoSdbEvent, AcceptBuffer, RejectBuffer, ipcVars, histVars
  <1>8. FsmRest \/ FsmStart \/ Arm \/ ArmRefused \/ FsmDone \/ FsmAbort \/ AbortSet \/ SetIdle => NoExit'
    BY <1>5 DEF FsmRest, FsmStart, Arm, ArmRefused, FsmDone, FsmAbort, AbortSet, SetIdle, Fsm,
                ipcVars, histVars
  <1> QED
    BY <1>3, <1>4, <1>6, <1>7, <1>8 DEF MainLoop

LEMMA NoAbortLoop == Calm /\ MainLoop => NoAbort'
  <1> SUFFICES ASSUME Calm, MainLoop PROVE NoAbort'
    OBVIOUS
  <1>1. UNCHANGED dmaVars /\ fHDRStatus' # "ABORT" /\ pc' \notin {"abortset", "setidle"} => NoAbort'
    BY DEF Calm, NoAbort, Completable, dmaVars
  <1>2. fHDRStatus # "ABORT" /\ pc \notin {"abortset", "setidle"}
    BY DEF Calm, NoAbort
  <1>3. ~ArmRefused /\ ~FsmAbort /\ ~AbortSet /\ ~SetIdle /\ ~ExitCommand
    <2>1. ~ExitCommand
      BY DEF ExitCommand, Treat, Calm, NoExit
    <2>2. ~ArmRefused
      BY DEF ArmRefused, Calm, IInv, TypeOK, Handle, NoExit, NoAbort, Awaiting, HandleInv,
             LockIsReleased, Completable
    <2> QED
      BY <2>1, <2>2, <1>2 DEF FsmAbort, AbortSet, SetIdle, Fsm
  <1>4. Poll \/ RxCommand \/ RxBuffer \/ Drained \/ ClearFlag => NoAbort'
    BY <1>1, <1>2 DEF Poll, RxCommand, RxBuffer, Drained, ClearFlag
  <1>5. NoCommand \/ StartAllowed \/ StartRefused \/ SetStart \/ OtherCommand => NoAbort'
    BY <1>1, <1>2 DEF NoCommand, StartAllowed, StartRefused, SetStart, OtherCommand, Treat
  <1>6. NoSdbEvent \/ AcceptBuffer \/ RejectBuffer => NoAbort'
    BY <1>1, <1>2 DEF NoSdbEvent, AcceptBuffer, RejectBuffer
  <1>7. FsmRest \/ FsmStart \/ FsmDone => NoAbort'
    BY <1>1, <1>2 DEF FsmRest, FsmStart, FsmDone, Fsm
  <1>8. Arm => NoAbort'
    BY <1>2 DEF Arm, Calm, NoAbort, Completable
  <1> QED
    BY <1>3, <1>4, <1>5, <1>6, <1>7, <1>8 DEF MainLoop

LEMMA CountLoop == Calm /\ MainLoop => CountKnown'
  <1> SUFFICES ASSUME Calm, MainLoop PROVE CountKnown'
    OBVIOUS
  <1>1. CASE AcceptBuffer
    <2>1. mArrayDdrBuffCount \in 0 .. NbBuf - 1
      BY <1>1, HdrAssumption DEF AcceptBuffer, Awaited, Calm, IInv, SlotSent
    <2> QED
      BY <1>1, <2>1, HdrAssumption DEF AcceptBuffer, CountKnown
  <1>2. CASE ~AcceptBuffer
    <2>1. UNCHANGED mArrayDdrBuffCount
      BY <1>2 DEF MainLoop, Poll, RxCommand, RxBuffer, Drained, ClearFlag, NoCommand, StartAllowed,
                  StartRefused, SetStart, ExitCommand, OtherCommand, Treat, NoSdbEvent, RejectBuffer,
                  FsmRest, FsmStart, Arm, ArmRefused, FsmDone, FsmAbort, AbortSet, SetIdle, Fsm, buffVars
    <2> QED
      BY <2>1 DEF Calm, CountKnown
  <1> QED
    BY <1>1, <1>2

LEMMA CalmStep == Calm /\ [SysNext]_sysState => Calm'
  <1> SUFFICES ASSUME Calm, [SysNext]_sysState PROVE NoExit' /\ NoAbort' /\ CountKnown'
    BY IInvSystem DEF Calm
  <1> DEFINE Goal == NoExit' /\ NoAbort' /\ CountKnown'
  <1> SUFFICES Goal
    OBVIOUS
  <1>f. UNCHANGED <<rvq, VirtUart0ChannelBuffRx, earlyExits, fHDRStatus, pc, flag, hdma, stream,
                    mArrayDdrBuffCount>> => Goal
    BY DEF Calm, NoExit, NoAbort, CountKnown, Completable
  <1>1. CASE StartFirmware
    BY <1>1, HdrAssumption, EmptyElems
       DEF StartFirmware, Boot, NoExit, NoAbort, CountKnown, Completable
  <1>2. ASSUME NEW m \in Message, SendToM4(m), m.ept = "tty" => m.cmd # "E" PROVE Goal
    <2>1. NoExit'
      BY <1>2, NoExitSent DEF Calm, IInv, TypeOK
    <2> QED
      BY <1>2, <2>1 DEF SendToM4, loopVars, buffVars, dmaVars, histVars, Calm, NoAbort, CountKnown, Completable
  <1>3. ASSUME NEW c \in {"S", "R"}, SendCommand(c) PROVE Goal
    BY <1>2, <1>3, SystemAssumption DEF SendCommand, Message
  <1>4. CASE SendBuffer
    <2> DEFINE m == [ept |-> "sdb", id |-> Len(linuxBufs), addr |-> allocated + 1]
    <2>1. allocated + 1 \in 1 .. MaxAddr /\ Len(linuxBufs) \in 0 .. NbBuf - 1
      BY <1>4, HdrAssumption DEF SendBuffer, Calm, IInv, TypeOK
    <2>2. m \in Message
      BY <2>1 DEF Message, Addr
    <2>3. SendToM4(m) /\ m.ept # "tty"
      BY <1>4 DEF SendBuffer
    <2> HIDE DEF m
    <2> QED
      BY <2>2, <2>3, <1>2
  <1>5. CASE MainThread
    BY <1>3, <1>4, <1>5, <1>f
       DEF MainThread, OpenTty, MapBuffer, StartSampling, SendStart, SetSamp, Quiet, vars, loopVars, buffVars,
           dmaVars, ipcVars, histVars
  <1>6. CASE UNCHANGED vars
    BY <1>6, <1>f DEF vars, loopVars, buffVars, dmaVars, ipcVars, histVars
  <1>7. CASE FreeBuffers \/ CoproSync_ShutdownCb
    BY <1>7, <1>f DEF FreeBuffers, CoproSync_ShutdownCb, loopVars, buffVars, dmaVars, ipcVars, histVars
  <1>8. CASE ExitSteps \/ Deaths
    BY <1>6, <1>7, <1>8
       DEF Deaths, Signal, Kill, Segfault, SizeFails, ExitSteps, Unmap, CloseDevice, RequestStop,
           StopFirmware, Quiet
  <1>9. CASE LoopStep
    BY <1>9, NoExitLoop, NoAbortLoop, CountLoop DEF LoopStep
  <1>10. CASE NewMsgStep
    BY <1>10, <1>f DEF NewMsgStep, IpccNewMsg, loopVars, buffVars, dmaVars, histVars
  <1>11. CASE IrqStep
    BY <1>11 DEF IrqStep, IrqComplete, IrqAborted, IrqError, DmaIrq, Calm, NoExit, NoAbort, CountKnown,
                 Completable, buffVars, ipcVars, histVars
  <1>12. CASE StreamStep
    BY <1>12 DEF StreamStep, StreamCompletes, Calm, NoExit, NoAbort, CountKnown,
                 Completable, loopVars, buffVars, ipcVars, histVars
  <1>13. CASE FirmwareRunning \/ SdbThread \/ DriverCb
    BY <1>13, <1>6 DEF FirmwareRunning, NewProcess, vars, SdbThread, PollEvents, PollNothing, ReadEvent,
                GetDataSize, WriteFile, NextBuffer, Quiet, DriverCb
  <1>14. CASE UNCHANGED sysState
    BY <1>14, <1>6 DEF sysState
  <1> QED
    BY <1>1, <1>5, <1>8, <1>9, <1>10, <1>11, <1>12, <1>13, <1>14 DEF SysNext, Firmware

------------------------------------------------------------------------------
(* The types of the application, the driver and the links.                  *)

LEMMA SysTypedInit == SysInit => AppTyped /\ EntryTyped
  BY SystemAssumption, HdrAssumption
     DEF SysInit, AppTyped, EntryTyped, Index, Sizes

LEMMA AppTypedStep == AppTyped /\ EntryTyped /\ [SysNext]_sysState => AppTyped'
  <1> SUFFICES ASSUME AppTyped, EntryTyped, [SysNext]_sysState PROVE AppTyped'
    OBVIOUS
  <1> USE DEF AppTyped
  <1>0. 0 \in Index /\ (mDdrBuffAwaited + 1) % NbBuf \in Index
    BY HdrAssumption, SystemAssumption DEF Index
  <1>1. CASE StartFirmware \/ FirmwareRunning
    BY <1>0, <1>1 DEF StartFirmware, FirmwareRunning, NewProcess, linkVars
  <1>2. CASE MainThread
    BY <1>0, <1>2 DEF MainThread, OpenTty, MapBuffer, StartSampling, SendStart, SetSamp, Quiet, linkVars
  <1>3. CASE SdbThread
    BY <1>0, <1>3 DEF SdbThread, PollEvents, PollNothing, ReadEvent, GetDataSize, WriteFile, NextBuffer,
                      Quiet, linkVars, EntryTyped, Sizes
  <1>4. CASE ExitSteps
    BY <1>0, <1>4 DEF ExitSteps, Unmap, CloseDevice, RequestStop, StopFirmware, FreeBuffers, Gone, Quiet,
                      linkVars, sysVars, appVars, Sizes
  <1>5. CASE Deaths
    BY <1>0, <1>5 DEF Deaths, Signal, Kill, Segfault, SizeFails, FreeBuffers, Gone, Quiet, linkVars, Sizes
  <1>6. CASE Firmware \/ DriverCb
    BY <1>6 DEF Firmware, LoopStep, NewMsgStep, IrqStep, StreamStep, DriverCb, sysVars, appVars, linkVars
  <1>7. CASE UNCHANGED sysState
    BY <1>7 DEF sysState, sysVars, appVars, linkVars
  <1> QED
    BY <1>1, <1>2, <1>3, <1>4, <1>5, <1>6, <1>7 DEF SysNext

\* A buffer is announced by its position in the session.
LEMMA AnnouncedIndex == Calm /\ FsmDone => mArrayDdrBuffIndex \in Index
  BY HdrAssumption DEF FsmDone, Fsm, Calm, IInv, TypeOK, NoExit, CountKnown, Ordered, Index

LEMMA AnnouncedByDone == Calm /\ MainLoop /\ announced' > announced => FsmDone
  <1> SUFFICES ASSUME Calm, MainLoop, announced' > announced PROVE FsmDone
    OBVIOUS
  <1>1. announced \in Nat
    BY DEF Calm, IInv, TypeOK
  <1>2. announced' # announced
    BY <1>1
  <1> QED
    BY <1>2 DEF MainLoop, Poll, RxCommand, RxBuffer, Drained, ClearFlag, NoCommand, StartAllowed,
                StartRefused, SetStart, ExitCommand, OtherCommand, Treat, NoSdbEvent, AcceptBuffer,
                RejectBuffer, FsmRest, FsmStart, Arm, ArmRefused, FsmAbort, AbortSet, SetIdle, Fsm, histVars

LEMMA EntryTypedStep ==
  Calm /\ AppTyped /\ EntryTyped /\ [SysNext]_sysState => EntryTyped'
  <1> SUFFICES ASSUME Calm, AppTyped, EntryTyped, [SysNext]_sysState PROVE EntryTyped'
    OBVIOUS
  <1> USE DEF EntryTyped
  <1>f. UNCHANGED <<entryVars, toLinux, dropped, holds, filled>> /\ stored' \in Nat => EntryTyped'
    BY DEF entryVars
  <1>1. CASE StartFirmware
    BY <1>1 DEF StartFirmware, NewProcess, entryVars, Index
  <1>2. CASE FirmwareRunning
    BY <1>2, <1>f DEF FirmwareRunning, NewProcess, linkVars, sampleVars
  <1>3. CASE MapBuffer
    <2>1. Garbage \in Sizes
      BY DEF Sizes
    <2> QED
      BY <1>3, <2>1 DEF MapBuffer, linkVars
  <1>4. CASE MainThread /\ ~MapBuffer
    BY <1>4, <1>f DEF MainThread, OpenTty, StartSampling, SendStart, SetSamp, Quiet, linkVars, sampleVars
  <1>5. CASE SdbThread
    <2>1. Unset \in Sizes /\ holds[mDdrBuffAwaited] \in Nat /\ mDdrBuffAwaited \in Index
      BY DEF Sizes, AppTyped
    <2> HIDE DEF EntryTyped
    <2>5. ReadEvent => EntryTyped'
      BY <2>1 DEF ReadEvent, linkVars, sampleVars, EntryTyped
    <2>6. GetDataSize => EntryTyped'
      BY <2>1 DEF GetDataSize, linkVars, sampleVars, EntryTyped
    <2>3. WriteFile => EntryTyped'
      BY <2>1, <1>f DEF WriteFile, linkVars, EntryTyped
    <2>4. PollEvents \/ PollNothing \/ NextBuffer => EntryTyped'
      BY <1>f DEF PollEvents, PollNothing, NextBuffer, Quiet, linkVars, sampleVars, EntryTyped
    <2> QED
      BY <1>5, <2>3, <2>4, <2>5, <2>6 DEF SdbThread
  <1>6. CASE ExitSteps
    BY <1>6, <1>f DEF ExitSteps, Unmap, CloseDevice, RequestStop, StopFirmware, FreeBuffers, Quiet,
                      linkVars, sysVars, sampleVars, entryVars
  <1>7. CASE Deaths
    BY <1>7, <1>f DEF Deaths, Signal, Kill, Segfault, SizeFails, FreeBuffers, Quiet, linkVars, sampleVars,
                      entryVars
  <1>8. CASE LoopStep
    <2>1. Transmitted => toLinux' \in Seq(Index) /\ dropped' \in 0 .. MaxDropped
      <3>1. announced' > announced => mArrayDdrBuffIndex \in Index
        BY <1>8, AnnouncedIndex, AnnouncedByDone DEF LoopStep
      <3>2. announced' > announced => Append(toLinux, mArrayDdrBuffIndex) \in Seq(Index)
        BY <3>1
      <3>3. dropped < MaxDropped => dropped + 1 \in 0 .. MaxDropped
        BY SystemAssumption
      <3> QED
        BY <3>2, <3>3 DEF Transmitted
    <2>2. holds' \in [Index -> Nat]
      BY <1>8 DEF LoopStep, Overwritten
    <2> QED
      BY <1>8, <2>1, <2>2 DEF LoopStep, entryVars
  <1>9. CASE NewMsgStep \/ IrqStep
    BY <1>9, <1>f DEF NewMsgStep, IrqStep, sysVars, linkVars, sampleVars
  <1>10. CASE StreamStep
    BY <1>10 DEF StreamStep, Calm, IInv, TypeOK, entryVars, linkVars
  <1>11. CASE DriverCb
    <2>1. Head(toLinux) \in Index /\ toLinux' \in Seq(Index)
      BY <1>11 DEF DriverCb
    <2> DEFINE i == Head(toLinux)
    <2>3. /\ [writing_size EXCEPT ![i] = Size] \in [Index -> Sizes]
          /\ [efd EXCEPT ![i] = @ + 1] \in [Index -> Nat]
      BY <2>1 DEF Sizes
    <2>2. efd' \in [Index -> Nat] /\ writing_size' \in [Index -> Sizes]
      BY <1>11, <2>3 DEF DriverCb, entryVars
    <2> QED
      BY <1>11, <2>1, <2>2 DEF DriverCb, sampleVars
  <1>12. CASE UNCHANGED sysState
    BY <1>12, <1>f DEF sysState, sysVars, linkVars, sampleVars
  <1> QED
    BY <1>1, <1>2, <1>3, <1>4, <1>5, <1>6, <1>7, <1>8, <1>9, <1>10, <1>11, <1>12 DEF SysNext, Firmware

SysTyped == Calm /\ AppTyped /\ EntryTyped

LEMMA SysTypedStep == SysTyped /\ [SysNext]_sysState => SysTyped'
  BY CalmStep, AppTypedStep, EntryTypedStep DEF SysTyped

LEMMA SysTypedInvariant == SysSpec => []SysTyped
  <1>1. SysInit => SysTyped
    BY CalmInit, SysTypedInit DEF SysTyped
  <1> QED
    BY <1>1, SysTypedStep, PTL DEF SysSpec, sysState

\* Theorem: the types of the system; sdb_thread awaits a buffer that exists,
\* and an announcement is the index of one.
THEOREM SysTypeCorrect == SysSpec => []SysTypeOK
  <1>1. SysTyped => SysTypeOK
    BY DEF SysTyped, Calm, IInv, AppTyped, EntryTyped, SysTypeOK
  <1> QED
    BY <1>1, SysTypedInvariant, PTL

------------------------------------------------------------------------------
(* Second layer: the buffers of the session.                                *)

\* The main thread maps all buffers before it starts a sample.
SessionInv ==
  /\ Len(linuxBufs) =< NbBuf
  /\ main \in {"none", "tty", "stop"} => linuxBufs = <<>>
  /\ main \in {"loop", "send", "again"} => Len(linuxBufs) = NbBuf
  /\ main = "open" => Len(linuxBufs) < NbBuf

\* The buffer b is one of bufs, under its index.
In(bufs, b) == b.id < Len(bufs) /\ b.addr = bufs[b.id + 1]

\* What the firmware has stored, or is about to hear, is of the open session.
KnownBuffers ==
  ~orphaned =>
    /\ mArrayDdrBuffCount =< Len(linuxBufs)
    /\ \A i \in 0 .. mArrayDdrBuffCount - 1 : mArrayDdrBuff[i] = Buffer(i)
    /\ SDB0RxMsg = "SET" => In(linuxBufs, SDB0ChannelBuffRx)
    /\ \A m \in Elems(rvq) : m.ept = "sdb" => In(linuxBufs, m)

Buffers == SysTyped /\ SessionInv /\ KnownBuffers

LEMMA BuffersInit == SysInit => SessionInv /\ KnownBuffers
  BY EmptyElems, HdrAssumption DEF SysInit, Init, SessionInv, KnownBuffers

LEMMA Growth ==
  ASSUME NEW bufs \in Seq(Addr), NEW a \in Addr
  PROVE  /\ Append(bufs, a) \in Seq(Addr) /\ Len(bufs) \in Nat /\ Len(Append(bufs, a)) = Len(bufs) + 1
         /\ \A i \in 0 .. Len(bufs) - 1 : Append(bufs, a)[i + 1] = bufs[i + 1]
         /\ Append(bufs, a)[Len(bufs) + 1] = a
  <1>1. \A k \in 1 .. Len(bufs) : Append(bufs, a)[k] = bufs[k]
    OBVIOUS
  <1>2. Len(bufs) \in Nat
    OBVIOUS
  <1>3. \A i \in 0 .. Len(bufs) - 1 : i + 1 \in 1 .. Len(bufs)
    BY <1>2
  <1>4. \A i \in 0 .. Len(bufs) - 1 : Append(bufs, a)[i + 1] = bufs[i + 1]
    BY <1>1, <1>3
  <1> QED
    BY <1>2, <1>4

LEMMA SessionInvStep == SysTyped /\ SessionInv /\ [SysNext]_sysState => SessionInv'
  <1> SUFFICES ASSUME SysTyped, SessionInv, [SysNext]_sysState PROVE SessionInv'
    OBVIOUS
  <1>0. linuxBufs \in Seq(Addr) /\ Len(linuxBufs) \in Nat /\ allocated \in 0 .. MaxAddr
    BY DEF SysTyped, Calm, IInv, TypeOK
  <1> USE HdrAssumption, SystemAssumption DEF SessionInv
  <1>f. UNCHANGED <<main, linuxBufs>> => SessionInv'
    OBVIOUS
  <1>1. CASE StartFirmware \/ FirmwareRunning
    BY <1>1 DEF StartFirmware, FirmwareRunning, NewProcess, linuxVars
  <1>2. CASE MapBuffer
    <2>1. /\ Len(linuxBufs) < NbBuf /\ allocated + 1 \in Addr
          /\ linuxBufs' = Append(linuxBufs, allocated + 1)
          /\ main' = IF Len(linuxBufs) + 1 = NbBuf THEN "loop" ELSE "open"
      BY <1>0, <1>2 DEF MapBuffer, SendBuffer, Addr
    <2>2. Len(linuxBufs') = Len(linuxBufs) + 1
      BY <1>0, <2>1, Growth
    <2> QED
      BY <1>0, <2>1, <2>2
  <1>3. CASE MainThread /\ ~MapBuffer
    BY <1>3 DEF MainThread, OpenTty, StartSampling, SendStart, SetSamp, SendCommand, Quiet, vars, linuxVars
  <1>4. CASE SdbThread
    BY <1>4, <1>f DEF SdbThread, PollEvents, PollNothing, ReadEvent, GetDataSize, WriteFile, NextBuffer,
                      Quiet, vars, linuxVars
  <1>5. CASE ExitSteps
    BY <1>5 DEF ExitSteps, Unmap, CloseDevice, RequestStop, StopFirmware, FreeBuffers, Gone, Quiet,
                CoproSync_ShutdownCb, vars, linuxVars, sysVars, appVars
  <1>6. CASE Deaths
    BY <1>6 DEF Deaths, Signal, Kill, Segfault, SizeFails, FreeBuffers, Gone, Quiet, vars, linuxVars
  <1>7. CASE LoopStep
    BY <1>7, <1>f DEF LoopStep, appVars, linuxVars,
                MainLoop, Poll, RxCommand, RxBuffer, Drained, ClearFlag, NoCommand, StartAllowed,
                StartRefused, SetStart, ExitCommand, OtherCommand, Treat, NoSdbEvent, AcceptBuffer,
                RejectBuffer, FsmRest, FsmStart, Arm, ArmRefused, FsmDone, FsmAbort, AbortSet, SetIdle, Fsm
  <1>8. CASE NewMsgStep \/ IrqStep \/ StreamStep \/ DriverCb
    BY <1>8, <1>f DEF NewMsgStep, IrqStep, StreamStep, DriverCb, IpccNewMsg, IrqComplete, IrqAborted, IrqError,
                DmaIrq, StreamCompletes, sysVars, appVars, vars, linuxVars
  <1>9. CASE UNCHANGED sysState
    BY <1>9, <1>f DEF sysState, sysVars, appVars, vars, linuxVars
  <1> QED
    BY <1>1, <1>2, <1>3, <1>4, <1>5, <1>6, <1>7, <1>8, <1>9 DEF SysNext, Firmware

LEMMA KnownSent ==
  ASSUME Buffers, NEW m \in Message, SendToM4(m),
         \/ UNCHANGED linuxBufs
         \/ \E a \in Addr : linuxBufs' = Append(linuxBufs, a),
         m.ept = "sdb" => In(linuxBufs', m),
         UNCHANGED orphaned
  PROVE  KnownBuffers'
  <1> USE DEF Buffers
  <1>1. rvq \in Seq(Message) /\ linuxBufs \in Seq(Addr) /\ mArrayDdrBuffCount \in Nat
    BY HdrAssumption DEF SysTyped, Calm, IInv, TypeOK
  <1>2. Elems(rvq') = Elems(rvq) \cup {m}
    BY <1>1, AppendElems DEF SendToM4
  <1>3. /\ Len(linuxBufs') >= Len(linuxBufs) /\ Len(linuxBufs) \in Nat /\ Len(linuxBufs') \in Nat
        /\ \A i \in 0 .. Len(linuxBufs) - 1 : linuxBufs'[i + 1] = linuxBufs[i + 1]
    BY <1>1, Growth
  <1>4. ASSUME NEW b, b.id \in Nat, In(linuxBufs, b) PROVE In(linuxBufs', b)
    BY <1>3, <1>4 DEF In
  <1>5. \A e \in Elems(rvq) : e.ept = "sdb" => e.id \in Nat
    <2>1. Elems(rvq) \subseteq Message
      BY <1>1 DEF Elems
    <2> QED
      BY <2>1, HdrAssumption DEF Message
  <1>6. SDB0ChannelBuffRx.id \in Nat
    BY HdrAssumption DEF SysTyped, Calm, IInv, TypeOK
  <1> SUFFICES ASSUME ~orphaned' PROVE KnownBuffers'
    BY DEF KnownBuffers
  <1>7. /\ mArrayDdrBuffCount =< Len(linuxBufs)
        /\ \A i \in 0 .. mArrayDdrBuffCount - 1 : mArrayDdrBuff[i] = linuxBufs[i + 1]
        /\ SDB0RxMsg = "SET" => In(linuxBufs, SDB0ChannelBuffRx)
        /\ \A e \in Elems(rvq) : e.ept = "sdb" => In(linuxBufs, e)
    BY DEF KnownBuffers, Buffer
  <1>8. UNCHANGED <<mArrayDdrBuff, mArrayDdrBuffCount, SDB0RxMsg, SDB0ChannelBuffRx>>
    BY DEF SendToM4, loopVars, buffVars
  <1>9. mArrayDdrBuffCount' =< Len(linuxBufs')
    BY <1>1, <1>3, <1>7, <1>8
  <1>10. \A i \in 0 .. mArrayDdrBuffCount' - 1 : mArrayDdrBuff'[i] = linuxBufs'[i + 1]
    <2> SUFFICES ASSUME NEW i \in 0 .. mArrayDdrBuffCount - 1 PROVE mArrayDdrBuff[i] = linuxBufs'[i + 1]
      BY <1>8
    <2>1. i \in 0 .. Len(linuxBufs) - 1
      BY <1>1, <1>3, <1>7
    <2> QED
      BY <2>1, <1>3, <1>7
  <1>11. SDB0RxMsg' = "SET" => In(linuxBufs', SDB0ChannelBuffRx')
    BY <1>4, <1>6, <1>7, <1>8
  <1>12. \A e \in Elems(rvq') : e.ept = "sdb" => In(linuxBufs', e)
    BY <1>2, <1>4, <1>5, <1>7
  <1> QED
    BY <1>9, <1>10, <1>11, <1>12 DEF KnownBuffers, Buffer

LEMMA KnownLoop == Buffers /\ MainLoop /\ UNCHANGED orphaned => KnownBuffers'
  <1> SUFFICES ASSUME Buffers, MainLoop, UNCHANGED orphaned PROVE KnownBuffers'
    OBVIOUS
  <1> USE DEF Buffers
  <1>1. /\ rvq \in Seq(Message) /\ linuxBufs \in Seq(Addr) /\ mArrayDdrBuffCount \in 0 .. DdrCnt
        /\ mArrayDdrBuff \in [0 .. DdrCnt - 1 -> Addr \cup {Null}] /\ Len(linuxBufs) \in Nat
        /\ Len(linuxBufs) =< NbBuf
    BY DEF SysTyped, Calm, IInv, TypeOK, SessionInv
  <1>2. UNCHANGED linuxBufs
    BY DEF MainLoop, Poll, RxCommand, RxBuffer, Drained, ClearFlag, NoCommand, StartAllowed,
           StartRefused, SetStart, ExitCommand, OtherCommand, Treat, NoSdbEvent, AcceptBuffer,
           RejectBuffer, FsmRest, FsmStart, Arm, ArmRefused, FsmDone, FsmAbort, AbortSet, SetIdle, Fsm, linuxVars
  <1>3. rvq # <<>> => Head(rvq) \in Elems(rvq) /\ Elems(Tail(rvq)) \subseteq Elems(rvq)
    BY <1>1, TailElems
  <1>f. UNCHANGED <<SDB0RxMsg, SDB0ChannelBuffRx, rvq, mArrayDdrBuff, mArrayDdrBuffCount>> => KnownBuffers'
    BY <1>2 DEF KnownBuffers, Buffer
  <1>4. RxCommand => KnownBuffers'
    BY <1>2, <1>3 DEF RxCommand, KnownBuffers, Buffer, buffVars
  <1>5. RxBuffer => KnownBuffers'
    BY <1>2, <1>3 DEF RxBuffer, KnownBuffers, Buffer, In, buffVars
  <1>6. AcceptBuffer => KnownBuffers'
    <2> SUFFICES ASSUME AcceptBuffer, ~orphaned PROVE KnownBuffers'
      BY DEF KnownBuffers
    <2>1. /\ mArrayDdrBuffCount < Len(linuxBufs)
          /\ SDB0ChannelBuffRx.addr = linuxBufs[mArrayDdrBuffCount + 1]
      BY DEF AcceptBuffer, Awaited, KnownBuffers, In
    <2>2. mArrayDdrBuffCount \in 0 .. DdrCnt - 1
      BY <1>1, <2>1, HdrAssumption
    <2>3. mArrayDdrBuffCount' = mArrayDdrBuffCount + 1 /\ mArrayDdrBuffCount' =< Len(linuxBufs')
      BY <1>1, <1>2, <2>1 DEF AcceptBuffer
    <2>4. mArrayDdrBuff'[mArrayDdrBuffCount] = linuxBufs'[mArrayDdrBuffCount + 1]
      BY <1>1, <1>2, <2>1, <2>2 DEF AcceptBuffer
    <2>5. \A i \in 0 .. mArrayDdrBuffCount - 1 : mArrayDdrBuff'[i] = linuxBufs'[i + 1]
      BY <1>1, <1>2, <2>2 DEF AcceptBuffer, KnownBuffers, Buffer
    <2>6. \A i \in 0 .. mArrayDdrBuffCount' - 1 : mArrayDdrBuff'[i] = linuxBufs'[i + 1]
      BY <1>1, <2>3, <2>4, <2>5
    <2>7. SDB0RxMsg' = "RESET" /\ rvq' = rvq
      BY DEF AcceptBuffer, ipcVars
    <2>8. \A e \in Elems(rvq') : e.ept = "sdb" => In(linuxBufs', e)
      BY <1>2, <2>7 DEF KnownBuffers
    <2> QED
      BY <2>3, <2>6, <2>7, <2>8 DEF KnownBuffers, Buffer
  <1>7. RejectBuffer => KnownBuffers'
    BY <1>2 DEF RejectBuffer, KnownBuffers, Buffer, buffVars, ipcVars
  <1>8. ~RxCommand /\ ~RxBuffer /\ ~AcceptBuffer /\ ~RejectBuffer =>
          UNCHANGED <<SDB0RxMsg, SDB0ChannelBuffRx, rvq, mArrayDdrBuff, mArrayDdrBuffCount>>
    BY DEF MainLoop, Poll, Drained, ClearFlag, NoCommand, StartAllowed,
           StartRefused, SetStart, ExitCommand, OtherCommand, Treat, NoSdbEvent,
           FsmRest, FsmStart, Arm, ArmRefused, FsmDone, FsmAbort, AbortSet, SetIdle, Fsm, ipcVars, buffVars
  <1> QED
    BY <1>f, <1>4, <1>5, <1>6, <1>7, <1>8

LEMMA KnownStep == Buffers /\ [SysNext]_sysState => KnownBuffers'
  <1> SUFFICES ASSUME Buffers, [SysNext]_sysState PROVE KnownBuffers'
    OBVIOUS
  <1>0. /\ linuxBufs \in Seq(Addr) /\ Len(linuxBufs) \in 0 .. NbBuf /\ allocated \in 0 .. MaxAddr
    BY DEF Buffers, SysTyped, Calm, IInv, TypeOK, SessionInv
  <1>f. UNCHANGED <<orphaned, linuxBufs, SDB0RxMsg, SDB0ChannelBuffRx, rvq, mArrayDdrBuff,
                    mArrayDdrBuffCount>> => KnownBuffers'
    BY DEF Buffers, KnownBuffers, Buffer
  <1>u. UNCHANGED <<vars, orphaned>> => KnownBuffers'
    BY <1>f DEF vars, loopVars, buffVars, ipcVars, linuxVars
  <1>1. CASE StartFirmware
    <2>1. linuxBufs' = <<>>
      BY <1>1 DEF StartFirmware, NewProcess, linuxVars, Buffers, SessionInv
    <2> QED
      BY <1>1, <2>1, EmptyElems, HdrAssumption DEF StartFirmware, Boot, KnownBuffers
  <1>2. CASE FirmwareRunning
    BY <1>2, <1>u DEF FirmwareRunning, NewProcess, vars
  <1>3. ASSUME NEW c \in {"S", "R"}, SendCommand(c), UNCHANGED orphaned PROVE KnownBuffers'
    <2>1. [ept |-> "tty", cmd |-> c] \in Message
      BY SystemAssumption DEF Message
    <2> DEFINE m == [ept |-> "tty", cmd |-> c]
    <2>2. SendToM4(m) /\ UNCHANGED linuxBufs /\ m.ept # "sdb"
      BY <1>3 DEF SendCommand
    <2> HIDE DEF m
    <2> QED
      BY <1>3, <2>1, <2>2, KnownSent DEF m
  <1>4. CASE MapBuffer
    <2> DEFINE m == [ept |-> "sdb", id |-> Len(linuxBufs), addr |-> allocated + 1]
    <2>1. /\ allocated + 1 \in Addr /\ Len(linuxBufs) \in 0 .. NbBuf - 1 /\ SendToM4(m)
          /\ linuxBufs' = Append(linuxBufs, allocated + 1) /\ UNCHANGED orphaned
      BY <1>0, <1>4, HdrAssumption DEF MapBuffer, SendBuffer, Addr
    <2>2. m \in Message /\ m.id = Len(linuxBufs) /\ m.addr = allocated + 1
      BY <2>1 DEF Message
    <2>3. In(linuxBufs', m)
      BY <1>0, <2>1, <2>2, Growth DEF In
    <2> HIDE DEF m
    <2> QED
      BY <2>1, <2>2, <2>3, KnownSent
  <1>5. CASE MainThread /\ ~MapBuffer
    BY <1>3, <1>5, <1>u DEF MainThread, OpenTty, StartSampling, SendStart, SetSamp, Quiet
  <1>6. CASE FreeBuffers
    <2>1. CASE linuxBufs # <<>>
      BY <1>6, <2>1 DEF FreeBuffers, KnownBuffers
    <2>2. CASE linuxBufs = <<>>
      <3>1. UNCHANGED <<linuxBufs, SDB0RxMsg, SDB0ChannelBuffRx, rvq, mArrayDdrBuff, mArrayDdrBuffCount>>
        BY <1>6, <2>2 DEF FreeBuffers, loopVars, buffVars, ipcVars
      <3>2. orphaned' = (orphaned \/ FALSE) /\ orphaned \in BOOLEAN
        BY <1>6, <2>2 DEF FreeBuffers, Buffers, SysTyped, AppTyped
      <3>3. orphaned' = orphaned
        BY <3>2
      <3> QED
        BY <1>f, <3>1, <3>3
    <2> QED
      BY <2>1, <2>2
  <1>7. CASE ExitSteps \/ Deaths
    BY <1>6, <1>7, <1>u, <1>f
       DEF Deaths, Signal, Kill, Segfault, SizeFails, ExitSteps, Unmap, CloseDevice, RequestStop,
           StopFirmware, Quiet, CoproSync_ShutdownCb, loopVars, buffVars, ipcVars, linuxVars, sysVars
  <1>8. CASE SdbThread \/ DriverCb
    BY <1>8, <1>u DEF SdbThread, PollEvents, PollNothing, ReadEvent, GetDataSize, WriteFile, NextBuffer,
                      Quiet, DriverCb
  <1>9. CASE LoopStep
    BY <1>9, KnownLoop DEF LoopStep
  <1>10. CASE NewMsgStep \/ IrqStep \/ StreamStep
    BY <1>10, <1>f DEF NewMsgStep, IrqStep, StreamStep, IpccNewMsg, IrqComplete, IrqAborted, IrqError, DmaIrq,
                       StreamCompletes, loopVars, buffVars, ipcVars, linuxVars, sysVars
  <1>11. CASE UNCHANGED sysState
    BY <1>11, <1>u DEF sysState, sysVars
  <1> QED
    BY <1>1, <1>2, <1>4, <1>5, <1>7, <1>8, <1>9, <1>10, <1>11 DEF SysNext, Firmware

LEMMA BuffersInvariant == SysSpec => []Buffers
  <1>1. SysInit => SessionInv /\ KnownBuffers
    BY BuffersInit
  <1>2. Buffers /\ [SysNext]_sysState => SessionInv' /\ KnownBuffers'
    BY SessionInvStep, KnownStep DEF Buffers
  <1>3. Buffers <=> SysTyped /\ SessionInv /\ KnownBuffers
    BY DEF Buffers
  <1> QED
    BY <1>1, <1>2, <1>3, SysTypedInvariant, PTL DEF SysSpec, sysState

\* Theorem: the DMA writes to buffers that are allocated, over every restart of
\* the application and the firmware, unless the device was closed under the
\* running firmware.
THEOREM DmaLive == SysSpec => []DmaIntoLiveMemory
  <1>1. Buffers => DmaIntoLiveMemory
    <2> SUFFICES ASSUME Buffers, stream = "on", ~orphaned
                 PROVE  \E i \in Index : Mapped(i) /\ dst = Buffer(i)
      BY DEF DmaIntoLiveMemory
    <2>1. TargetKnown /\ earlyExits = 0
      BY IInvImplies DEF Buffers, SysTyped, Calm, NoExit
    <2>2. PICK i \in 0 .. mArrayDdrBuffCount - 1 : dst = mArrayDdrBuff[i]
      BY <2>1 DEF TargetKnown
    <2>3. mArrayDdrBuffCount =< Len(linuxBufs) /\ Len(linuxBufs) =< NbBuf /\ dst = Buffer(i)
      BY <2>2 DEF Buffers, KnownBuffers, SessionInv
    <2>4. mArrayDdrBuffCount \in Nat /\ Len(linuxBufs) \in Nat
      BY HdrAssumption DEF Buffers, SysTyped, Calm, IInv, TypeOK
    <2>5. i \in Index /\ Mapped(i)
      BY <2>3, <2>4, HdrAssumption DEF Index, Mapped
    <2> QED
      BY <2>3, <2>5
  <1> QED
    BY <1>1, BuffersInvariant, PTL

------------------------------------------------------------------------------
(* Third layer: the sample under way.  From the decision of the main thread *)
(* to the file it is at one place, and there is no second one behind it.    *)

IsStart(m) == m.ept = "tty" /\ m.cmd = "S"
HasStart(q) == \E k \in 1 .. Len(q) : IsStart(q[k])
OneStart(q) == \A j, k \in 1 .. Len(q) : IsStart(q[j]) /\ IsStart(q[k]) => j = k

\* The entries of the session whose event is signalled.
Rung(bufs, e) == {i \in Index : i < Len(bufs) /\ e[i] > 0}

Sending  == main = "send"
Queued   == HasStart(rvq)
Slotted  == VirtUart0RxMsg = "SET" /\ VirtUart0ChannelBuffRx = "S"
Setting  == pc = "setstart"
Asking   == Sending \/ Queued \/ Slotted \/ Setting
Sampling == fHDRStatus \in {"START", "WAIT", "DONE"}
Telling  == toLinux # <<>>
Waiting  == Rung(linuxBufs, efd) # {}
Reading  == thread \in {"size", "write"}
Under    == Asking \/ Sampling \/ Telling \/ Waiting \/ Reading

AtOnePlace ==
  /\ Reading  => ~(Waiting \/ Telling \/ Sampling \/ Asking)
  /\ Waiting  => ~(Telling \/ Sampling \/ Asking)
  /\ Telling  => ~(Sampling \/ Asking)
  /\ Sampling => ~Asking
  /\ Setting  => ~(Slotted \/ Queued \/ Sending)
  /\ Slotted  => ~(Queued \/ Sending)
  /\ Queued   => ~Sending

Single ==
  /\ OneStart(rvq) /\ Len(toLinux) =< 1
  /\ \A i, j \in Rung(linuxBufs, efd) : i = j

\* The application knows of the sample, and has mapped its buffers.
Known ==
  /\ Under => mMachineState = "SAMP"
  /\ mMachineState = "SAMP" \/ thread # "top" => Len(linuxBufs) = NbBuf

OneSample == ~orphaned => AtOnePlace /\ Single /\ Known

\* The sample under way is the next one, and its data is where it is looked for.
Filling == fHDRStatus = "START" \/ pc = "arm" \/ stream = "on"
Full    == flag = "TC" \/ fHDRStatus = "DONE"

Counts ==
  /\ mMachineState = "IDLE" \/ Asking => starts = stored /\ filled = stored
  /\ Filling => starts = stored + 1 /\ filled = stored
  /\ Full \/ Telling \/ Waiting \/ Reading => starts = stored + 1 /\ filled = starts

Contents ==
  /\ Full => holds[mArrayDdrBuffIndex] = filled
  /\ \A i \in Elems(toLinux) : holds[i] = filled
  /\ \A i \in Rung(linuxBufs, efd) : holds[i] = filled /\ writing_size[i] = Size
  /\ Reading => holds[mDdrBuffAwaited] = filled
  /\ thread = "size" => writing_size[mDdrBuffAwaited] = Size
  /\ thread = "write" => got = Size

Numbers == ~orphaned => Counts /\ Contents

LEMMA StartsAppend ==
  ASSUME NEW q \in Seq(Message), NEW m \in Message
  PROVE  /\ HasStart(Append(q, m)) <=> HasStart(q) \/ IsStart(m)
         /\ OneStart(q) /\ (IsStart(m) => ~HasStart(q)) => OneStart(Append(q, m))
  <1>1. Len(q) \in Nat /\ Len(Append(q, m)) = Len(q) + 1 /\ Append(q, m)[Len(q) + 1] = m
    OBVIOUS
  <1>2. \A k \in 1 .. Len(q) : Append(q, m)[k] = q[k]
    OBVIOUS
  <1>3. 1 .. Len(Append(q, m)) = (1 .. Len(q)) \cup {Len(q) + 1}
    BY <1>1
  <1> HIDE DEF IsStart
  <1> QED
    BY <1>1, <1>2, <1>3 DEF HasStart, OneStart

LEMMA StartsTail ==
  ASSUME NEW q \in Seq(Message), q # <<>>
  PROVE  /\ HasStart(Tail(q)) => HasStart(q)
         /\ IsStart(Head(q)) => HasStart(q)
         /\ OneStart(q) => OneStart(Tail(q))
         /\ OneStart(q) /\ IsStart(Head(q)) => ~HasStart(Tail(q))
  <1>1. Len(q) \in Nat \ {0} /\ Head(q) = q[1] /\ Len(Tail(q)) = Len(q) - 1
    OBVIOUS
  <1>2. \A k \in 1 .. Len(q) - 1 : Tail(q)[k] = q[k + 1]
    OBVIOUS
  <1>3. \A k \in 1 .. Len(Tail(q)) : k + 1 \in 1 .. Len(q) /\ k + 1 # 1 /\ Tail(q)[k] = q[k + 1]
    BY <1>1, <1>2
  <1>4. \A j, k \in 1 .. Len(Tail(q)) : j + 1 = k + 1 => j = k
    BY <1>1
  <1>5. 1 \in 1 .. Len(q)
    BY <1>1
  <1> HIDE DEF IsStart
  <1>6. HasStart(Tail(q)) => HasStart(q)
    BY <1>3 DEF HasStart
  <1>7. IsStart(Head(q)) => HasStart(q)
    BY <1>1, <1>5 DEF HasStart
  <1>8. OneStart(q) => OneStart(Tail(q))
    BY <1>3, <1>4 DEF OneStart
  <1>9. OneStart(q) /\ IsStart(Head(q)) => ~HasStart(Tail(q))
    BY <1>1, <1>3, <1>5 DEF OneStart, HasStart
  <1> QED
    BY <1>6, <1>7, <1>8, <1>9

LEMMA NoStarts == ~HasStart(<<>>) /\ OneStart(<<>>)
  BY DEF HasStart, OneStart

\* Nothing moves forward.
LEMMA Fades ==
  ASSUME OneSample, UNCHANGED <<orphaned, linuxBufs, mMachineState>>, ~orphaned => Single',
         Sending' => Sending, Queued' => Queued, Slotted' => Slotted, Setting' => Setting,
         Sampling' => Sampling, Telling' => Telling, Waiting' => Waiting, Reading' => Reading,
         thread' # "top" => thread # "top" \/ mMachineState = "SAMP"
  PROVE  OneSample'
  BY DEF OneSample, AtOnePlace, Known, Under, Asking

\* The main loop leaves the application and the events alone.
LEMMA LoopFrame ==
  ASSUME SysTyped, LoopStep
  PROVE  /\ UNCHANGED <<main, thread, mMachineState, mDdrBuffAwaited, got, efd, writing_size, orphaned,
                        filled, stored, linuxBufs>>
         /\ UNCHANGED announced => UNCHANGED toLinux
         /\ ~RxCommand /\ ~RxBuffer => UNCHANGED rvq
         /\ ~FsmDone => UNCHANGED announced
  <1>1. UNCHANGED <<main, thread, mMachineState, mDdrBuffAwaited, got, efd, writing_size, orphaned,
                        filled, stored>>
    BY DEF LoopStep, appVars, entryVars
  <1>2. UNCHANGED announced => UNCHANGED toLinux
    <2>1. announced \in Nat
      BY DEF SysTyped, Calm, IInv, TypeOK
    <2> QED
      BY <2>1 DEF LoopStep, Transmitted
  <1>3. MainLoop
    BY DEF LoopStep
  <1>4. UNCHANGED linuxBufs
    BY <1>3 DEF MainLoop, Poll, RxCommand, RxBuffer, Drained, ClearFlag, NoCommand, StartAllowed,
           StartRefused, SetStart, ExitCommand, OtherCommand, Treat, NoSdbEvent, AcceptBuffer,
           RejectBuffer, FsmRest, FsmStart, Arm, ArmRefused, FsmDone, FsmAbort, AbortSet, SetIdle, Fsm, linuxVars
  <1>5. ~RxCommand /\ ~RxBuffer => UNCHANGED rvq
    BY <1>3 DEF MainLoop, Poll, Drained, ClearFlag, NoCommand, StartAllowed,
           StartRefused, SetStart, ExitCommand, OtherCommand, Treat, NoSdbEvent, AcceptBuffer,
           RejectBuffer, FsmRest, FsmStart, Arm, ArmRefused, FsmDone, FsmAbort, AbortSet, SetIdle, Fsm, ipcVars
  <1>6. ~FsmDone => UNCHANGED announced
    BY <1>3 DEF MainLoop, Poll, RxCommand, RxBuffer, Drained, ClearFlag, NoCommand, StartAllowed,
           StartRefused, SetStart, ExitCommand, OtherCommand, Treat, NoSdbEvent, AcceptBuffer,
           RejectBuffer, FsmRest, FsmStart, Arm, ArmRefused, FsmAbort, AbortSet, SetIdle, Fsm, histVars
  <1> QED
    BY <1>1, <1>2, <1>4, <1>5, <1>6

\* In this system the main loop neither aborts nor is refused.
LEMMA CalmLoop ==
  ASSUME SysTyped
  PROVE  ~ExitCommand /\ ~ArmRefused /\ ~FsmAbort /\ ~AbortSet /\ ~SetIdle
  <1>1. ~ExitCommand
    BY DEF ExitCommand, Treat, SysTyped, Calm, NoExit
  <1>2. ~ArmRefused
    BY DEF ArmRefused, SysTyped, Calm, IInv, TypeOK, Handle, NoExit, NoAbort, Awaiting, HandleInv,
           LockIsReleased, Completable
  <1>3. ~FsmAbort /\ ~AbortSet /\ ~SetIdle
    BY DEF FsmAbort, AbortSet, SetIdle, Fsm, SysTyped, Calm, NoAbort
  <1> QED
    BY <1>1, <1>2, <1>3

LEMMA OneSampleLoop == SysTyped /\ OneSample /\ LoopStep => OneSample'
  <1> SUFFICES ASSUME SysTyped, OneSample, LoopStep, ~orphaned PROVE OneSample'
    BY LoopFrame DEF OneSample
  <1>0. rvq \in Seq(Message) /\ toLinux \in Seq(Index)
    BY DEF SysTyped, Calm, IInv, TypeOK, EntryTyped
  <1>1. /\ UNCHANGED <<main, thread, mMachineState, efd, orphaned, linuxBufs>>
        /\ UNCHANGED announced => UNCHANGED toLinux
        /\ ~RxCommand /\ ~RxBuffer => UNCHANGED rvq
        /\ ~FsmDone => UNCHANGED announced
    BY LoopFrame
  <1>2. AtOnePlace /\ Single /\ Known
    BY DEF OneSample
  <1>3. Sending' = Sending /\ Waiting' = Waiting /\ Reading' = Reading
    BY <1>1 DEF Sending, Waiting, Reading
  <1>4. UNCHANGED toLinux => Telling' = Telling
    BY DEF Telling
  <1>5. UNCHANGED rvq => Queued' = Queued
    BY DEF Queued
  <1>6. UNCHANGED <<rvq, toLinux>> => Single'
    BY <1>1, <1>2 DEF Single
  <1>f. ASSUME ~RxCommand, ~RxBuffer, ~FsmDone,
               Slotted' => Slotted, Setting' => Setting, Sampling' => Sampling
        PROVE  OneSample'
    BY <1>f, <1>1, <1>3, <1>4, <1>5, <1>6, Fades
  <1>g. ASSUME ~RxCommand, ~RxBuffer, ~FsmDone
        PROVE  UNCHANGED <<Sending, Waiting, Reading, Telling, Queued>> /\ Single'
               /\ UNCHANGED <<orphaned, mMachineState, linuxBufs, thread>>
    BY <1>g, <1>1, <1>3, <1>4, <1>5, <1>6
  <1> DEFINE Goal == OneSample'
  <1> SUFFICES Goal
    OBVIOUS
  <1>7. CASE RxCommand
    <2>1. rvq # <<>> /\ rvq' = Tail(rvq) /\ UNCHANGED <<pc, fHDRStatus, toLinux>>
      BY <1>7, <1>1 DEF RxCommand, FsmDone, Fsm
    <2>2. VirtUart0RxMsg' = "SET" /\ VirtUart0ChannelBuffRx' = Head(rvq).cmd /\ Head(rvq).ept = "tty"
      BY <1>7 DEF RxCommand
    <2>3. Setting' = Setting /\ Sampling' = Sampling /\ Telling' = Telling
      BY <2>1 DEF Setting, Sampling, Telling
    <2>4. Single' /\ (Queued' => Queued)
      BY <1>0, <1>1, <1>2, <2>1, StartsTail DEF Single, Queued
    <2>5. CASE IsStart(Head(rvq))
      <3>1. Queued /\ ~Queued' /\ Slotted'
        BY <1>0, <1>2, <2>1, <2>2, <2>5, StartsTail DEF Single, Queued, Slotted, IsStart
      <3> QED
        BY <3>1, <1>1, <1>2, <1>3, <2>3, <2>4 DEF OneSample, AtOnePlace, Known, Under, Asking
    <2>6. CASE ~IsStart(Head(rvq))
      <3>1. ~Slotted'
        BY <2>2, <2>6 DEF Slotted, IsStart
      <3> QED
        BY <3>1, <1>1, <1>3, <2>3, <2>4, Fades
    <2> QED
      BY <2>5, <2>6
  <1>8. CASE RxBuffer
    <2>1. rvq # <<>> /\ rvq' = Tail(rvq) /\ UNCHANGED <<pc, fHDRStatus, toLinux, VirtUart0RxMsg, VirtUart0ChannelBuffRx>>
      BY <1>8, <1>1 DEF RxBuffer, FsmDone, Fsm
    <2>2. Setting' = Setting /\ Sampling' = Sampling /\ Telling' = Telling /\ Slotted' = Slotted
      BY <2>1 DEF Setting, Sampling, Telling, Slotted
    <2>3. Single' /\ (Queued' => Queued)
      BY <1>0, <1>1, <1>2, <2>1, StartsTail DEF Single, Queued
    <2> QED
      BY <1>1, <1>3, <2>2, <2>3, Fades
  <1>9. CASE Poll \/ Drained \/ ClearFlag \/ NoCommand \/ NoSdbEvent \/ RejectBuffer
    BY <1>9, <1>f DEF Poll, Drained, ClearFlag, NoCommand, NoSdbEvent, RejectBuffer, RxCommand, RxBuffer,
                      FsmDone, Fsm, Slotted, Setting, Sampling
  <1>10. CASE FsmRest \/ FsmStart \/ Arm
    BY <1>10, <1>f DEF FsmRest, FsmStart, Arm, Fsm, RxCommand, RxBuffer, FsmDone, Slotted, Setting, Sampling
  <1>11. CASE StartRefused \/ OtherCommand
    BY <1>11, <1>f DEF StartRefused, OtherCommand, Treat, Fsm, RxCommand, RxBuffer, FsmDone, Slotted,
                       Setting, Sampling
  <1>12. CASE AcceptBuffer
    <2>1. Sampling' => Sampling
      BY <1>12 DEF AcceptBuffer, Sampling
    <2> QED
      BY <1>12, <2>1, <1>f DEF AcceptBuffer, RxCommand, RxBuffer, FsmDone, Fsm, Slotted, Setting
  <1>13. CASE StartAllowed
    <2>1. Slotted /\ ~Slotted' /\ Setting' /\ Sampling' = Sampling
      BY <1>13 DEF StartAllowed, Treat, Slotted, Setting, Sampling
    <2>2. ~RxCommand /\ ~RxBuffer /\ ~FsmDone
      BY <1>13 DEF StartAllowed, Treat, RxCommand, RxBuffer, FsmDone, Fsm
    <2> QED
      BY <2>1, <1>2, <2>2, <1>g DEF OneSample, AtOnePlace, Known, Under, Asking
  <1>14. CASE SetStart
    <2>1. Setting /\ ~Setting' /\ Slotted' = Slotted /\ Sampling'
      BY <1>14 DEF SetStart, Slotted, Setting, Sampling
    <2>2. ~RxCommand /\ ~RxBuffer /\ ~FsmDone
      BY <1>14 DEF SetStart, RxCommand, RxBuffer, FsmDone, Fsm
    <2> QED
      BY <2>1, <1>2, <2>2, <1>g DEF OneSample, AtOnePlace, Known, Under, Asking
  <1>15. CASE FsmDone
    <2>1. Sampling /\ ~Sampling' /\ Slotted' = Slotted /\ ~Setting /\ ~Setting'
      BY <1>15 DEF FsmDone, Fsm, Slotted, Setting, Sampling
    <2>2. UNCHANGED rvq
      BY <1>15 DEF FsmDone, Fsm, ipcVars
    <2>3. toLinux = <<>>
      BY <1>2, <2>1 DEF AtOnePlace, Telling
    <2>4. Len(toLinux') =< 1
      <3>1. toLinux' = Append(toLinux, mArrayDdrBuffIndex) \/ toLinux' = toLinux
        BY DEF LoopStep, Transmitted
      <3>2. mArrayDdrBuffIndex \in Index
        BY <1>15, AnnouncedIndex DEF SysTyped
      <3>3. Len(Append(toLinux, mArrayDdrBuffIndex)) = Len(toLinux) + 1
        BY <1>0, <3>2
      <3>4. Len(toLinux) = 0
        BY <2>3
      <3>5. toLinux' = toLinux => Len(toLinux') = 0
        BY <3>4
      <3>6. toLinux' = Append(toLinux, mArrayDdrBuffIndex) => Len(toLinux') = 1
        BY <3>3, <3>4
      <3> QED
        BY <3>1, <3>5, <3>6
    <2>5. Single' /\ Queued' = Queued
      BY <1>1, <1>2, <1>5, <2>2, <2>4 DEF Single
    <2> QED
      BY <1>1, <1>2, <1>3, <2>1, <2>5 DEF OneSample, AtOnePlace, Known, Under, Asking
  <1> HIDE DEF Goal
  <1> QED
    BY <1>7, <1>8, <1>9, <1>10, <1>11, <1>12, <1>13, <1>14, <1>15, CalmLoop DEF LoopStep, MainLoop

\* While fewer buffers are mapped than it takes, there is no sample.
LEMMA NotUnder ==
  ASSUME SysTyped, OneSample, ~orphaned, Len(linuxBufs) # NbBuf
  PROVE  mMachineState = "IDLE" /\ thread = "top" /\ ~Under
  BY DEF OneSample, Known, SysTyped, AppTyped

LEMMA OneSampleMain == Buffers /\ OneSample /\ MainThread => OneSample'
  <1>a. MainThread => UNCHANGED orphaned
    BY DEF MainThread, OpenTty, MapBuffer, StartSampling, SendStart, SetSamp, Quiet
  <1> SUFFICES ASSUME Buffers, OneSample, MainThread, ~orphaned PROVE OneSample'
    BY <1>a DEF OneSample
  <1>0. /\ rvq \in Seq(Message) /\ linuxBufs \in Seq(Addr) /\ efd \in [Index -> Nat] /\ SysTyped
        /\ allocated \in 0 .. MaxAddr /\ Len(linuxBufs) \in Nat /\ Len(linuxBufs) =< NbBuf
        /\ main \in {"loop", "send", "again"} => Len(linuxBufs) = NbBuf
        /\ main \in {"tty", "open"} => Len(linuxBufs) # NbBuf
    <2>1. linuxBufs = <<>> => Len(linuxBufs) # NbBuf
      BY SystemAssumption
    <2> QED
      BY <2>1, HdrAssumption DEF Buffers, SessionInv, SysTyped, Calm, IInv, TypeOK, EntryTyped
  <1>1. AtOnePlace /\ Single /\ Known
    BY DEF OneSample
  <1>2. ASSUME NEW c \in {"S", "R"}, SendCommand(c)
        PROVE  /\ Queued' <=> Queued \/ c = "S"
               /\ (c = "S" /\ Queued) \/ OneStart(rvq')
               /\ UNCHANGED <<Slotted, Setting, Sampling, linuxBufs>>
    <2> DEFINE m == [ept |-> "tty", cmd |-> c]
    <2>1. m \in Message /\ (IsStart(m) <=> c = "S")
      BY SystemAssumption DEF Message, IsStart
    <2>2. rvq' = Append(rvq, m) /\ UNCHANGED <<loopVars, linuxBufs>>
      BY <1>2 DEF SendCommand, SendToM4
    <2> HIDE DEF m
    <2>3. (HasStart(rvq') <=> HasStart(rvq) \/ IsStart(m)) /\ ((IsStart(m) /\ HasStart(rvq)) \/ OneStart(rvq'))
      BY <1>0, <1>1, <2>1, <2>2, StartsAppend DEF Single
    <2> QED
      BY <2>1, <2>2, <2>3 DEF Queued, Slotted, Setting, Sampling, loopVars
  <1> DEFINE Goal == OneSample'
  <1> SUFFICES Goal
    OBVIOUS
  <1>3. CASE OpenTty
    <2>1. SendCommand("R") /\ main' = "open" /\ UNCHANGED <<thread, mMachineState, efd, toLinux, orphaned>>
      BY <1>3 DEF OpenTty, entryVars, linkVars
    <2>2. "R" \in {"S", "R"} /\ "R" # "S"
      OBVIOUS
    <2>3. /\ Queued' <=> Queued
          /\ OneStart(rvq')
          /\ UNCHANGED <<Slotted, Setting, Sampling, linuxBufs>>
      <3>1. "R" \in {"S", "R"} /\ SendCommand("R")
        BY <2>1
      <3>2. /\ Queued' <=> Queued \/ "R" = "S"
            /\ ("R" = "S" /\ Queued) \/ OneStart(rvq')
            /\ UNCHANGED <<Slotted, Setting, Sampling, linuxBufs>>
        BY <1>2, <3>1
      <3> QED
        BY <2>2, <3>2
    <2>4. Waiting' = Waiting /\ Telling' = Telling /\ Reading' = Reading /\ ~Sending' /\ Single'
      BY <2>1, <2>3, <1>1 DEF Waiting, Telling, Reading, Sending, Single
    <2> QED
      BY <2>1, <2>3, <2>4, Fades
  <1>4. CASE MapBuffer
    <2> DEFINE m == [ept |-> "sdb", id |-> Len(linuxBufs), addr |-> allocated + 1]
    <2>1. /\ SendToM4(m) /\ allocated + 1 \in Addr /\ Len(linuxBufs) \in 0 .. NbBuf - 1
          /\ linuxBufs' = Append(linuxBufs, allocated + 1)
      <3>1. SendToM4(m) /\ Len(linuxBufs) < NbBuf /\ allocated < MaxAddr
            /\ linuxBufs' = Append(linuxBufs, allocated + 1)
        BY <1>4 DEF MapBuffer, SendBuffer
      <3>2. allocated + 1 \in Addr
        BY <1>0, <3>1, HdrAssumption DEF Addr
      <3>3. Len(linuxBufs) \in 0 .. NbBuf - 1
        BY <1>0, <3>1, HdrAssumption
      <3> QED
        BY <3>1, <3>2, <3>3
    <2>2. main' # "send" /\ UNCHANGED <<thread, mMachineState, toLinux, orphaned>>
      BY <1>4 DEF MapBuffer, linkVars
    <2>3. efd' = [efd EXCEPT ![Len(linuxBufs)] = 0]
      BY <1>4 DEF MapBuffer
    <2>4. mMachineState = "IDLE" /\ thread = "top" /\ ~Under
      BY <1>0, <1>4, NotUnder DEF MapBuffer
    <2>5. m \in Message /\ ~IsStart(m)
      BY <2>1 DEF Message, IsStart
    <2>6. rvq' = Append(rvq, m) /\ UNCHANGED loopVars
      BY <2>1 DEF SendToM4
    <2> HIDE DEF m
    <2>7. ~Queued' /\ OneStart(rvq')
      BY <1>0, <1>1, <2>4, <2>5, <2>6, StartsAppend DEF Single, Queued, Under, Asking
    <2>8. Rung(linuxBufs', efd') = {}
      <3>1. Len(linuxBufs') = Len(linuxBufs) + 1
        BY <1>0, <2>1, Growth
      <3>2. Rung(linuxBufs, efd) = {}
        BY <2>4 DEF Under, Waiting
      <3>3. ASSUME NEW i \in Rung(linuxBufs', efd') PROVE i \in Rung(linuxBufs, efd)
        <4>1. i \in Index /\ i < Len(linuxBufs) + 1 /\ efd'[i] > 0
          BY <3>1, <3>3 DEF Rung
        <4>2. i # Len(linuxBufs)
          BY <1>0, <2>3, <4>1
        <4>3. i < Len(linuxBufs) /\ efd'[i] = efd[i]
          BY <1>0, <2>3, <4>1, <4>2 DEF Index
        <4> QED
          BY <4>1, <4>3 DEF Rung
      <3> QED
        BY <3>2, <3>3
    <2>9. ~Slotted' /\ ~Setting' /\ ~Sampling' /\ ~Telling' /\ ~Reading' /\ ~Sending'
      BY <2>2, <2>4, <2>6 DEF Under, Asking, Slotted, Setting, Sampling, Telling, Reading, Sending, loopVars
    <2>10. Single'
      BY <1>1, <2>2, <2>7, <2>8 DEF Single
    <2>11. mMachineState' # "SAMP" /\ thread' = "top" /\ ~Waiting'
      BY <2>2, <2>4, <2>8 DEF Waiting
    <2> QED
      BY <2>7, <2>9, <2>10, <2>11 DEF OneSample, AtOnePlace, Known, Under, Asking
  <1>5. CASE StartSampling
    <2>1. ~Under /\ main' = "send" /\ mMachineState' = "SAMP" /\ Len(linuxBufs) = NbBuf
      BY <1>0, <1>1, <1>5 DEF StartSampling, Known
    <2>2. UNCHANGED <<thread, rvq, VirtUart0RxMsg, VirtUart0ChannelBuffRx, pc, fHDRStatus, toLinux,
                      linuxBufs, efd>>
      BY <1>5 DEF StartSampling, Quiet, vars, loopVars, ipcVars, linuxVars, entryVars, linkVars
    <2>3. UNCHANGED <<Queued, Slotted, Setting, Sampling, Telling, Waiting, Reading, Single>>
      BY <2>2 DEF Queued, Slotted, Setting, Sampling, Telling, Waiting, Reading, Single
    <2> QED
      BY <1>1, <2>1, <2>2, <2>3 DEF OneSample, AtOnePlace, Known, Under, Asking
  <1>6. CASE SendStart
    <2>1. SendCommand("S") /\ Sending /\ ~Sending' /\ UNCHANGED <<thread, mMachineState, efd, toLinux, orphaned>>
      BY <1>6 DEF SendStart, entryVars, linkVars, Sending
    <2>2. "S" \in {"S", "R"} /\ ~Queued
      BY <1>1, <2>1 DEF AtOnePlace
    <2>3. /\ Queued' /\ OneStart(rvq')
          /\ UNCHANGED <<Slotted, Setting, Sampling, linuxBufs>>
      BY <1>2, <2>1, <2>2
    <2>4. Waiting' = Waiting /\ Telling' = Telling /\ Reading' = Reading /\ Single'
      BY <2>1, <2>3, <1>1 DEF Waiting, Telling, Reading, Single
    <2> QED
      BY <1>1, <2>1, <2>3, <2>4 DEF OneSample, AtOnePlace, Known, Under, Asking
  <1>7. CASE SetSamp
    <2>1. main' = "loop" /\ mMachineState' = "SAMP" /\ Len(linuxBufs) = NbBuf
      BY <1>0, <1>7 DEF SetSamp
    <2>2. UNCHANGED <<thread, rvq, VirtUart0RxMsg, VirtUart0ChannelBuffRx, pc, fHDRStatus, toLinux,
                      linuxBufs, efd>>
      BY <1>7 DEF SetSamp, Quiet, vars, loopVars, ipcVars, linuxVars, entryVars, linkVars
    <2>3. UNCHANGED <<Queued, Slotted, Setting, Sampling, Telling, Waiting, Reading, Single>> /\ ~Sending'
      BY <2>1, <2>2 DEF Queued, Slotted, Setting, Sampling, Telling, Waiting, Reading, Single, Sending
    <2> QED
      BY <1>1, <2>1, <2>2, <2>3 DEF OneSample, AtOnePlace, Known, Under, Asking
  <1> HIDE DEF Goal
  <1> QED
    BY <1>3, <1>4, <1>5, <1>6, <1>7 DEF MainThread

LEMMA OneSampleThread == Buffers /\ OneSample /\ SdbThread => OneSample'
  <1> SUFFICES ASSUME Buffers, OneSample, SdbThread, ~orphaned PROVE OneSample'
    BY DEF OneSample, SdbThread, PollEvents, PollNothing, ReadEvent, GetDataSize, WriteFile, NextBuffer, Quiet
  <1>0. efd \in [Index -> Nat] /\ mDdrBuffAwaited \in Index
    BY DEF Buffers, SysTyped, AppTyped, EntryTyped
  <1>1. AtOnePlace /\ Single /\ Known
    BY DEF OneSample
  <1>2. UNCHANGED <<vars, main, toLinux, orphaned>>
    BY DEF SdbThread, PollEvents, PollNothing, ReadEvent, GetDataSize, WriteFile, NextBuffer, Quiet, linkVars
  <1>3. UNCHANGED <<Sending, Queued, Slotted, Setting, Sampling, Telling, linuxBufs, rvq>>
    BY <1>2 DEF Sending, Queued, Slotted, Setting, Sampling, Telling, vars, loopVars, ipcVars, linuxVars
  <1>4. UNCHANGED efd => UNCHANGED <<Waiting, Single>>
    BY <1>2, <1>3 DEF Waiting, Single
  <1>5. CASE PollEvents \/ PollNothing \/ NextBuffer
    <2>1. /\ UNCHANGED <<mMachineState, efd>> /\ (Reading' => Reading)
          /\ thread' # "top" => mMachineState = "SAMP"
      BY <1>5 DEF PollEvents, PollNothing, NextBuffer, Quiet, entryVars, Reading
    <2> QED
      BY <2>1, <1>1, <1>2, <1>3, <1>4, Fades
  <1>6. CASE GetDataSize
    BY <1>6, <1>1, <1>2, <1>3, <1>4, Fades DEF GetDataSize, Reading
  <1>7. CASE ReadEvent
    <2>1. /\ thread = "poll" /\ thread' = "size" /\ efd[mDdrBuffAwaited] > 0 /\ UNCHANGED mMachineState
          /\ efd' = [efd EXCEPT ![mDdrBuffAwaited] = 0]
      BY <1>7 DEF ReadEvent
    <2>2. Len(linuxBufs) = NbBuf
      BY <1>1, <2>1 DEF Known
    <2>3. mDdrBuffAwaited \in Rung(linuxBufs, efd)
      BY <1>0, <2>1, <2>2, HdrAssumption DEF Rung, Index
    <2>4. Waiting /\ \A i \in Rung(linuxBufs, efd) : i = mDdrBuffAwaited
      BY <2>3, <1>1 DEF Waiting, Single
    <2>5. Rung(linuxBufs', efd') = {}
      <3>1. ASSUME NEW i \in Rung(linuxBufs', efd') PROVE FALSE
        <4>1. i \in Index /\ i < Len(linuxBufs) /\ efd'[i] > 0
          BY <1>3, <3>1 DEF Rung
        <4>2. i # mDdrBuffAwaited
          BY <1>0, <2>1, <4>1
        <4>3. efd'[i] = efd[i]
          BY <1>0, <2>1, <4>1, <4>2
        <4>4. i \in Rung(linuxBufs, efd)
          BY <4>1, <4>3 DEF Rung
        <4> QED
          BY <2>4, <4>2, <4>4
      <3> QED
        BY <3>1
    <2>6. ~Waiting' /\ Single'
      BY <1>1, <1>2, <1>3, <2>5 DEF Waiting, Single
    <2> QED
      BY <1>1, <1>3, <2>1, <2>2, <2>4, <2>6 DEF OneSample, AtOnePlace, Known, Under, Asking
  <1>8. CASE WriteFile
    <2>1. Reading /\ ~Reading' /\ mMachineState' = "IDLE" /\ thread # "top" /\ UNCHANGED efd
      BY <1>8 DEF WriteFile, Reading, entryVars
    <2> QED
      BY <1>1, <1>3, <1>4, <2>1 DEF OneSample, AtOnePlace, Known, Under, Asking
  <1> QED
    BY <1>5, <1>6, <1>7, <1>8 DEF SdbThread

\* An end of the application, or a start that finds the firmware running, ends
\* the soundness of the buffers unless none is mapped.
LEMMA EndsFrame ==
  ASSUME Buffers, OneSample, ExitSteps \/ Deaths \/ FirmwareRunning, ~orphaned'
  PROVE  /\ ~orphaned
         /\ UNCHANGED <<rvq, VirtUart0RxMsg, VirtUart0ChannelBuffRx, pc, fHDRStatus, toLinux, linuxBufs, efd>>
         /\ UNCHANGED <<mMachineState, thread, starts, filled, stored, holds, writing_size, stream, flag,
                        mArrayDdrBuffIndex>>
         /\ thread = "top" \/ UNCHANGED <<mDdrBuffAwaited, got>>
         /\ main' # "send" \/ UNCHANGED main
  <1>0. orphaned \in BOOLEAN /\ SysTyped
    BY DEF Buffers, SysTyped, AppTyped
  <1>1. ~orphaned
    BY <1>0 DEF ExitSteps, Deaths, Signal, Kill, Segfault, SizeFails, Unmap, CloseDevice, RequestStop,
           StopFirmware, FirmwareRunning, FreeBuffers, Quiet, sysVars
  <1>2. linuxBufs = <<>> => mMachineState = "IDLE" /\ thread = "top"
    BY <1>0, <1>1, NotUnder, SystemAssumption
  <1>3. FreeBuffers => linuxBufs = <<>>
    BY DEF FreeBuffers
  <1>4. UNCHANGED <<rvq, VirtUart0RxMsg, VirtUart0ChannelBuffRx, pc, fHDRStatus, toLinux, linuxBufs, efd>>
    BY <1>3 DEF ExitSteps, Deaths, Signal, Kill, Segfault, SizeFails, Unmap, CloseDevice, RequestStop,
       StopFirmware, FirmwareRunning, NewProcess, FreeBuffers, Quiet, sysVars, CoproSync_ShutdownCb,
       vars, loopVars, ipcVars, linuxVars, entryVars, linkVars
  <1>5. UNCHANGED <<starts, filled, stored, holds, writing_size, stream, flag, mArrayDdrBuffIndex>>
    BY DEF ExitSteps, Deaths, Signal, Kill, Segfault, SizeFails, Unmap, CloseDevice, RequestStop,
       StopFirmware, FirmwareRunning, NewProcess, FreeBuffers, Quiet, sysVars, CoproSync_ShutdownCb,
       vars, buffVars, dmaVars, histVars, entryVars, sampleVars
  <1>6. main \in {"stop", "none"} => linuxBufs = <<>>
    BY DEF Buffers, SessionInv
  <1>7. main' # "send" \/ UNCHANGED main
    BY DEF ExitSteps, Deaths, Signal, Kill, Segfault, SizeFails, Unmap, CloseDevice, RequestStop,
       StopFirmware, FirmwareRunning, NewProcess, Gone, sysVars, appVars
  <1>8. UNCHANGED <<mMachineState, thread>> /\ (thread = "top" \/ UNCHANGED <<mDdrBuffAwaited, got>>)
    BY <1>2, <1>3, <1>6
       DEF ExitSteps, Deaths, Signal, Kill, Segfault, SizeFails, Unmap, CloseDevice, RequestStop,
       StopFirmware, FirmwareRunning, NewProcess, Gone, sysVars, appVars, Quiet
  <1> QED
    BY <1>1, <1>4, <1>5, <1>7, <1>8

LEMMA OneSampleEnds ==
  Buffers /\ OneSample /\ (ExitSteps \/ Deaths \/ FirmwareRunning) => OneSample'
  <1> SUFFICES ASSUME Buffers, OneSample, ExitSteps \/ Deaths \/ FirmwareRunning, ~orphaned' PROVE OneSample'
    BY DEF OneSample
  <1>1. orphaned \in BOOLEAN /\ orphaned' \in BOOLEAN
    BY SysTypedStep DEF Buffers, SysTyped, AppTyped, SysNext
  <1>2. /\ ~orphaned
        /\ UNCHANGED <<rvq, VirtUart0RxMsg, VirtUart0ChannelBuffRx, pc, fHDRStatus, toLinux, linuxBufs, efd>>
        /\ UNCHANGED <<mMachineState, thread>>
        /\ main' # "send" \/ UNCHANGED main
    BY EndsFrame
  <1>3. AtOnePlace /\ Single /\ Known
    BY <1>2 DEF OneSample
  <1>4. UNCHANGED <<Queued, Slotted, Setting, Sampling, Telling, Waiting, Single, Reading, orphaned>>
    BY <1>1, <1>2 DEF Queued, Slotted, Setting, Sampling, Telling, Waiting, Single, Reading
  <1>5. Sending' => Sending
    BY <1>2 DEF Sending
  <1> QED
    BY <1>2, <1>3, <1>4, <1>5, Fades

LEMMA OneSampleBoot == Buffers /\ StartFirmware => OneSample'
  <1> SUFFICES ASSUME Buffers, StartFirmware PROVE OneSample'
    OBVIOUS
  <1>1. linuxBufs' = <<>>
    BY DEF StartFirmware, NewProcess, linuxVars, Buffers, SessionInv
  <1>2. /\ main' = "tty" /\ thread' = "top" /\ mMachineState' = "IDLE" /\ toLinux' = <<>> /\ rvq' = <<>>
        /\ pc' = "poll" /\ fHDRStatus' = "INIT" /\ VirtUart0RxMsg' = "RESET"
    BY DEF StartFirmware, NewProcess, Boot
  <1>3. Rung(linuxBufs', efd') = {}
    BY <1>1, HdrAssumption DEF Rung, Index
  <1>4. ~Under' /\ Single'
    BY <1>2, <1>3, NoStarts DEF Under, Asking, Sending, Queued, Slotted, Setting, Sampling, Telling, Waiting,
                                Reading, Single
  <1> QED
    BY <1>2, <1>4 DEF OneSample, AtOnePlace, Known, Under, Asking

LEMMA OneSampleIrq ==
  Buffers /\ OneSample /\ (NewMsgStep \/ IrqStep \/ StreamStep) => OneSample'
  <1> SUFFICES ASSUME Buffers, OneSample, NewMsgStep \/ IrqStep \/ StreamStep, ~orphaned PROVE OneSample'
    BY DEF OneSample, NewMsgStep, IrqStep, StreamStep, sysVars
  <1>1. UNCHANGED <<main, thread, mMachineState, toLinux, efd, orphaned>>
    BY DEF NewMsgStep, IrqStep, StreamStep, sysVars, appVars, entryVars, linkVars
  <1>2. UNCHANGED <<rvq, VirtUart0RxMsg, VirtUart0ChannelBuffRx, pc, linuxBufs>>
    BY DEF NewMsgStep, IrqStep, StreamStep, IpccNewMsg, IrqComplete, IrqAborted, IrqError, DmaIrq,
           StreamCompletes, loopVars, ipcVars, linuxVars
  <1>3. Sampling' => Sampling
    <2>1. CASE IrqComplete
      <3>1. Completable
        BY <2>1 DEF IrqComplete, DmaIrq, Buffers, SysTyped, Calm, IInv, TypeOK, Handle, HandleInv, Completable
      <3> QED
        BY <3>1 DEF Buffers, SysTyped, Calm, IInv, NoExit, NoAbort, Awaiting, Sampling
    <2>2. CASE ~IrqComplete
      BY <2>2 DEF NewMsgStep, IrqStep, StreamStep, IpccNewMsg, IrqAborted, IrqError, StreamCompletes,
                  loopVars, Sampling
    <2> QED
      BY <2>1, <2>2
  <1>4. UNCHANGED <<Sending, Queued, Slotted, Setting, Telling, Waiting, Reading, Single>>
    BY <1>1, <1>2 DEF Sending, Queued, Slotted, Setting, Telling, Waiting, Reading, Single
  <1> QED
    BY <1>1, <1>2, <1>3, <1>4, Fades DEF OneSample

\* The only announcement signals the only event.
LEMMA Signals ==
  ASSUME Buffers, OneSample, ~orphaned, DriverCb
  PROVE  /\ Telling /\ ~Waiting /\ toLinux' = <<>> /\ Head(toLinux) \in Index /\ Mapped(Head(toLinux))
         /\ Rung(linuxBufs', efd') = {Head(toLinux)}
         /\ writing_size' = [writing_size EXCEPT ![Head(toLinux)] = Size]
  <1> DEFINE i == Head(toLinux)
  <1>0. toLinux \in Seq(Index) /\ efd \in [Index -> Nat] /\ toLinux # <<>>
    BY DEF Buffers, SysTyped, EntryTyped, DriverCb
  <1>1. Telling /\ ~Waiting /\ Len(toLinux) =< 1 /\ Len(linuxBufs) = NbBuf
    BY <1>0 DEF OneSample, AtOnePlace, Single, Known, Under, Telling
  <1>2. i \in Index /\ Mapped(i)
    BY <1>0, <1>1, HdrAssumption DEF Index, Mapped
  <1>3. toLinux' = <<>>
    BY <1>0, <1>1 DEF DriverCb
  <1>4. /\ writing_size' = [writing_size EXCEPT ![i] = Size] /\ efd' = [efd EXCEPT ![i] = @ + 1]
        /\ linuxBufs' = linuxBufs
    BY <1>2 DEF DriverCb, vars, linuxVars
  <1>5. i \in Rung(linuxBufs', efd')
    BY <1>0, <1>2, <1>4 DEF Rung, Mapped
  <1>6. \A j \in Rung(linuxBufs', efd') : j = i
    <2> SUFFICES ASSUME NEW j \in Rung(linuxBufs', efd'), j # i PROVE FALSE
      OBVIOUS
    <2>1. j \in Rung(linuxBufs, efd)
      BY <1>0, <1>4 DEF Rung
    <2> QED
      BY <2>1, <1>1 DEF Waiting
  <1> QED
    BY <1>1, <1>2, <1>3, <1>4, <1>5, <1>6

LEMMA OneSampleDriver == Buffers /\ OneSample /\ DriverCb => OneSample'
  <1> SUFFICES ASSUME Buffers, OneSample, DriverCb, ~orphaned PROVE OneSample'
    BY DEF OneSample, DriverCb
  <1>1. /\ Telling /\ ~Waiting /\ toLinux' = <<>> /\ Rung(linuxBufs', efd') = {Head(toLinux)}
    BY Signals
  <1>2. UNCHANGED <<vars, main, thread, mMachineState, orphaned>>
    BY DEF DriverCb, appVars
  <1>3. UNCHANGED <<Sending, Queued, Slotted, Setting, Sampling, Reading, linuxBufs, rvq>>
    BY <1>2 DEF Sending, Queued, Slotted, Setting, Sampling, Reading, vars, loopVars, ipcVars, linuxVars
  <1>4. ~Telling' /\ Waiting' /\ (OneStart(rvq) => Single')
    BY <1>1, <1>3 DEF Telling, Waiting, Single
  <1> QED
    BY <1>1, <1>2, <1>3, <1>4 DEF OneSample, AtOnePlace, Single, Known, Under, Asking

LEMMA OneSampleStep == Buffers /\ OneSample /\ [SysNext]_sysState => OneSample'
  <1> SUFFICES ASSUME Buffers, OneSample, UNCHANGED sysState PROVE OneSample'
    BY OneSampleLoop, OneSampleMain, OneSampleThread, OneSampleEnds, OneSampleBoot, OneSampleIrq,
       OneSampleDriver DEF SysNext, Firmware, Buffers
  <1>1. UNCHANGED <<main, thread, mMachineState, toLinux, efd, orphaned, rvq, VirtUart0RxMsg,
                    VirtUart0ChannelBuffRx, pc, fHDRStatus, linuxBufs>>
    BY DEF sysState, sysVars, appVars, entryVars, linkVars, vars, loopVars, ipcVars, linuxVars
  <1> QED
    BY <1>1 DEF OneSample, AtOnePlace, Single, Known, Under, Asking, Sending, Queued, Slotted, Setting,
                Sampling, Telling, Waiting, Reading

LEMMA OneSampleInit == SysInit => OneSample
  <1> SUFFICES ASSUME SysInit PROVE OneSample
    OBVIOUS
  <1>1. Rung(linuxBufs, efd) = {}
    BY HdrAssumption DEF SysInit, Init, Rung, Index
  <1> QED
    BY <1>1, NoStarts
       DEF SysInit, Init, OneSample, AtOnePlace, Single, Known, Under, Asking, Sending, Queued, Slotted,
           Setting, Sampling, Telling, Waiting, Reading

------------------------------------------------------------------------------
(* The numbers of the samples.                                              *)

Sample == Buffers /\ OneSample

LEMMA SampleStep == Sample /\ [SysNext]_sysState => Sample'
  BY SysTypedStep, SessionInvStep, KnownStep, OneSampleStep DEF Sample, Buffers

\* A transfer belongs to a sampling firmware, and ends before DONE.
TransfersWait ==
  /\ pc = "arm" \/ stream = "on" \/ flag = "TC" => fHDRStatus = "WAIT"
  /\ stream = "on" \/ flag = "TC" => pc \notin {"arm", "setstart"} /\ dst = Target
  /\ stream = "on" => flag # "TC"

LEMMA TransferWaits == SysTyped => TransfersWait
  <1> SUFFICES ASSUME SysTyped PROVE TransfersWait
    OBVIOUS
  <1>1. stream = "on" \/ flag = "TC" => Completable
    BY DEF SysTyped, Calm, IInv, TypeOK, Handle, HandleInv, NoAbort, Completable
  <1> QED
    BY <1>1 DEF SysTyped, Calm, IInv, HandleInv, NoAbort, NoExit, Awaiting, TransfersWait

\* Once no sample is under way, only the numbers of the last one matter.
Resting == mMachineState = "IDLE" /\ starts = stored /\ filled = stored

LEMMA AtRest == SysTyped /\ OneSample /\ Resting => Numbers
  <1> SUFFICES ASSUME SysTyped, OneSample, Resting, ~orphaned PROVE Numbers
    BY DEF Numbers
  <1>1. ~Under
    BY DEF OneSample, Known, Resting
  <1>2. ~Filling /\ ~Full
    BY <1>1, TransferWaits DEF TransfersWait, Filling, Full, Under, Sampling
  <1>3. Elems(toLinux) = {} /\ Rung(linuxBufs, efd) = {}
    BY <1>1, EmptyElems DEF Under, Telling, Waiting
  <1>4. Counts
    BY <1>1, <1>2 DEF Counts, Under, Resting
  <1>5. Contents
    BY <1>1, <1>2, <1>3 DEF Contents, Under, Reading
  <1> QED
    BY <1>4, <1>5 DEF Numbers

\* The same of the state after a step.
LEMMA AtRestNext == Sample /\ [SysNext]_sysState /\ Resting' => Numbers'
  <1>1. Sample /\ [SysNext]_sysState => SysTyped' /\ OneSample'
    BY SampleStep DEF Sample, Buffers
  <1>2. SysTyped' /\ OneSample' /\ Resting' => Numbers'
    BY AtRest, PTL
  <1> QED
    BY <1>1, <1>2

\* Nothing that the numbers depend on changes, but that the sample may be lost.
LEMMA NumbersKeep ==
  ASSUME Numbers, ~orphaned,
         UNCHANGED <<mMachineState, starts, filled, stored, holds, writing_size, toLinux, linuxBufs, efd>>,
         Asking' => Asking, Filling' => Filling, Full' => Full, Reading' => Reading,
         Full' => UNCHANGED mArrayDdrBuffIndex,
         Reading' => UNCHANGED <<thread, mDdrBuffAwaited, got>>
  PROVE  Numbers'
  <1>1. Counts /\ Contents
    BY DEF Numbers
  <1>2. UNCHANGED <<Telling, Waiting>>
    BY DEF Telling, Waiting
  <1>3. Counts'
    BY <1>1, <1>2 DEF Counts
  <1>4. thread' = "size" \/ thread' = "write" => Reading'
    BY DEF Reading
  <1>5. Contents'
    BY <1>1, <1>4 DEF Contents
  <1> QED
    BY <1>3, <1>5 DEF Numbers

LEMMA NumbersMain == Sample /\ Numbers /\ MainThread => Numbers'
  <1>a. MainThread => UNCHANGED orphaned
    BY DEF MainThread, OpenTty, MapBuffer, StartSampling, SendStart, SetSamp, Quiet
  <1> SUFFICES ASSUME Sample, Numbers, MainThread, ~orphaned PROVE Numbers'
    BY <1>a DEF Numbers
  <1>0. /\ SysTyped /\ OneSample /\ SessionInv /\ rvq \in Seq(Message)
        /\ AtOnePlace /\ Known /\ Counts
    BY DEF Sample, Buffers, SysTyped, Calm, IInv, TypeOK, OneSample, Numbers
  <1>1. UNCHANGED <<thread, starts, filled, stored, toLinux, stream, flag, pc, fHDRStatus, mArrayDdrBuffIndex,
                    VirtUart0RxMsg, VirtUart0ChannelBuffRx, got>>
    BY DEF MainThread, OpenTty, MapBuffer, StartSampling, SendStart, SetSamp, Quiet, linkVars, sampleVars,
           SendCommand, SendBuffer, SendToM4, vars, loopVars, buffVars, dmaVars, histVars
  <1>2. ~MapBuffer => UNCHANGED <<linuxBufs, efd, writing_size, holds>>
    BY DEF MainThread, OpenTty, StartSampling, SendStart, SetSamp, Quiet, entryVars, sampleVars,
           SendCommand, vars, linuxVars
  <1>3. UNCHANGED <<Slotted, Setting, Filling, Full, Reading>>
    BY <1>1 DEF Slotted, Setting, Filling, Full, Reading
  <1>4. CASE OpenTty \/ SendStart
    <2>1. PICK c \in {"S", "R"} : SendCommand(c) /\ (c = "S" => Sending)
      BY <1>4 DEF OpenTty, SendStart, Sending
    <2> DEFINE m == [ept |-> "tty", cmd |-> c]
    <2>2. m \in Message /\ (IsStart(m) => c = "S")
      BY SystemAssumption DEF Message, IsStart
    <2>3. rvq' = Append(rvq, m)
      BY <2>1 DEF SendCommand, SendToM4
    <2> HIDE DEF m
    <2>4. Asking' => Asking
      <3>1. HasStart(rvq') => HasStart(rvq) \/ IsStart(m)
        BY <1>0, <2>2, <2>3, StartsAppend
      <3>2. main' # "send"
        BY <1>4 DEF OpenTty, SendStart
      <3> QED
        BY <1>3, <2>1, <2>2, <3>1, <3>2 DEF Asking, Queued, Sending
    <2>5. ~MapBuffer /\ UNCHANGED <<mMachineState, mDdrBuffAwaited>>
      BY <1>4 DEF OpenTty, SendStart, MapBuffer
    <2> QED
      BY <1>1, <1>2, <1>3, <2>4, <2>5, NumbersKeep
  <1>5. CASE MapBuffer
    <2>1. mMachineState = "IDLE" /\ UNCHANGED mMachineState
      <3>1. Len(linuxBufs) # NbBuf
        BY <1>0, <1>5, HdrAssumption DEF MapBuffer, SessionInv, SysTyped, Calm, IInv, TypeOK
      <3> QED
        BY <1>0, <1>5, <3>1, NotUnder DEF MapBuffer
    <2>2. Resting'
      BY <1>0, <1>1, <2>1 DEF Counts, Resting
    <2> QED
      BY <1>5, <2>2, AtRestNext DEF SysNext
  <1>6. CASE StartSampling
    <2>1. mMachineState = "IDLE" /\ mMachineState' = "SAMP" /\ UNCHANGED rvq /\ ~MapBuffer
      BY <1>6 DEF StartSampling, MapBuffer, Quiet, vars, ipcVars
    <2>2. starts = stored /\ filled = stored /\ ~Reading /\ ~Sampling /\ ~Telling /\ ~Waiting
      BY <1>0, <2>1 DEF Counts, Known, Under
    <2>3. ~Full /\ ~Filling
      BY <1>0, <2>2, TransferWaits DEF TransfersWait, Filling, Full, Sampling
    <2>4. Elems(toLinux) = {} /\ Rung(linuxBufs, efd) = {} /\ toLinux = <<>>
      BY <2>2, EmptyElems DEF Telling, Waiting
    <2>5. Counts'
      BY <1>1, <1>2, <1>3, <2>1, <2>2, <2>3, <2>4 DEF Counts, Telling, Waiting
    <2>6. Contents'
      BY <1>1, <1>2, <1>3, <2>1, <2>2, <2>3, <2>4 DEF Contents, Reading
    <2> QED
      BY <2>5, <2>6 DEF Numbers
  <1>7. CASE SetSamp
    <2>1. /\ mMachineState' = "SAMP" /\ UNCHANGED <<rvq, mDdrBuffAwaited>> /\ ~MapBuffer /\ ~Sending'
      BY <1>7 DEF SetSamp, MapBuffer, Quiet, vars, ipcVars, Sending
    <2>2. Asking' => Asking
      BY <1>3, <2>1 DEF Asking, Queued
    <2>3. Telling' = Telling /\ Waiting' = Waiting
      BY <1>1, <1>2, <2>1 DEF Telling, Waiting
    <2>4. Counts'
      BY <1>0, <1>1, <1>3, <2>1, <2>2, <2>3 DEF Counts
    <2>5. Contents'
      BY <1>1, <1>2, <1>3, <2>1 DEF Numbers, Contents
    <2> QED
      BY <2>4, <2>5 DEF Numbers
  <1> QED
    BY <1>4, <1>5, <1>6, <1>7 DEF MainThread

LEMMA NumbersThread == Sample /\ Numbers /\ SdbThread => Numbers'
  <1>a. SdbThread => UNCHANGED orphaned
    BY DEF SdbThread, PollEvents, PollNothing, ReadEvent, GetDataSize, WriteFile, NextBuffer, Quiet
  <1> SUFFICES ASSUME Sample, Numbers, SdbThread, ~orphaned PROVE Numbers'
    BY <1>a DEF Numbers
  <1>0. /\ AtOnePlace /\ Known /\ Counts /\ Contents
        /\ efd \in [Index -> Nat] /\ mDdrBuffAwaited \in Index /\ writing_size \in [Index -> Sizes]
    BY DEF Sample, Buffers, SysTyped, EntryTyped, AppTyped, OneSample, Numbers
  <1>1. UNCHANGED <<vars, main, toLinux, holds, filled>>
    BY DEF SdbThread, PollEvents, PollNothing, ReadEvent, GetDataSize, WriteFile, NextBuffer, Quiet, linkVars,
           sampleVars
  <1>2. UNCHANGED <<starts, linuxBufs, mArrayDdrBuffIndex, Asking, Filling, Full, Telling>>
    BY <1>1 DEF vars, loopVars, buffVars, dmaVars, ipcVars, linuxVars, histVars, Asking, Sending, Queued,
                Slotted, Setting, Filling, Full, Telling
  <1>3. CASE PollEvents \/ PollNothing \/ NextBuffer
    <2>1. UNCHANGED <<mMachineState, efd, writing_size, stored>> /\ ~Reading'
      BY <1>3 DEF PollEvents, PollNothing, NextBuffer, Quiet, entryVars, sampleVars, Reading
    <2> QED
      BY <1>1, <1>2, <2>1, NumbersKeep
  <1>4. CASE ReadEvent
    <2>1. /\ thread = "poll" /\ thread' = "size" /\ efd[mDdrBuffAwaited] > 0
          /\ UNCHANGED <<mMachineState, mDdrBuffAwaited, got, writing_size, stored>>
      BY <1>4 DEF ReadEvent, sampleVars
    <2>2. mDdrBuffAwaited \in Rung(linuxBufs, efd)
      BY <1>0, <2>1, HdrAssumption DEF Known, Rung, Index
    <2>3. holds[mDdrBuffAwaited] = filled /\ writing_size[mDdrBuffAwaited] = Size /\ Waiting
      BY <1>0, <2>2 DEF Contents, Waiting
    <2>4. Rung(linuxBufs', efd') = {}
      <3>1. Sample' /\ ~orphaned'
        BY SampleStep, <1>a DEF SysNext
      <3>2. Reading'
        BY <2>1 DEF Reading
      <3> QED
        BY <3>1, <3>2 DEF Sample, OneSample, AtOnePlace, Waiting
    <2>5. Counts'
      BY <1>0, <1>1, <1>2, <2>1, <2>3 DEF Counts
    <2>6. Contents'
      BY <1>0, <1>1, <1>2, <2>1, <2>3, <2>4 DEF Contents, Reading
    <2> QED
      BY <2>5, <2>6 DEF Numbers
  <1>5. CASE GetDataSize
    <2>1. /\ thread = "size" /\ thread' = "write" /\ got' = writing_size[mDdrBuffAwaited]
          /\ UNCHANGED <<mMachineState, mDdrBuffAwaited, efd, stored>> /\ Reading /\ Reading'
      BY <1>5 DEF GetDataSize, sampleVars, Reading
    <2>2. got' = Size
      BY <1>0, <2>1 DEF Contents
    <2>3. Rung(linuxBufs', efd') = {} /\ UNCHANGED Waiting
      BY <1>0, <1>2, <2>1 DEF AtOnePlace, Waiting
    <2>4. Counts'
      BY <1>0, <1>1, <1>2, <2>1, <2>3 DEF Counts
    <2>5. Contents'
      BY <1>0, <1>1, <1>2, <2>1, <2>2, <2>3 DEF Contents
    <2> QED
      BY <2>4, <2>5 DEF Numbers
  <1>6. CASE WriteFile
    <2>1. Reading /\ stored' = holds[mDdrBuffAwaited] /\ mMachineState' = "IDLE"
      BY <1>6 DEF WriteFile, Reading
    <2>2. Resting'
      BY <1>0, <1>1, <1>2, <2>1 DEF Counts, Contents, Resting
    <2> QED
      BY <1>6, <2>2, AtRestNext DEF SysNext, SdbThread
  <1> QED
    BY <1>3, <1>4, <1>5, <1>6 DEF SdbThread

LEMMA NumbersEnds ==
  Sample /\ Numbers /\ (ExitSteps \/ Deaths \/ FirmwareRunning) => Numbers'
  <1> SUFFICES ASSUME Sample, Numbers, ExitSteps \/ Deaths \/ FirmwareRunning, ~orphaned' PROVE Numbers'
    BY DEF Numbers
  <1>1. /\ ~orphaned
        /\ UNCHANGED <<rvq, VirtUart0RxMsg, VirtUart0ChannelBuffRx, pc, fHDRStatus, toLinux, linuxBufs, efd>>
        /\ UNCHANGED <<mMachineState, thread, starts, filled, stored, holds, writing_size, stream, flag,
                        mArrayDdrBuffIndex>>
        /\ thread = "top" \/ UNCHANGED <<mDdrBuffAwaited, got>>
        /\ main' # "send" \/ UNCHANGED main
    BY EndsFrame DEF Sample
  <1>2. UNCHANGED <<Filling, Full, Reading>> /\ (Asking' => Asking) /\ (Reading' => thread # "top")
    BY <1>1 DEF Filling, Full, Reading, Asking, Sending, Queued, Slotted, Setting
  <1> QED
    BY <1>1, <1>2, NumbersKeep

LEMMA NumbersBoot == Sample /\ StartFirmware => Numbers'
  <1> SUFFICES ASSUME Sample, StartFirmware PROVE Numbers'
    OBVIOUS
  <1>1. Resting'
    BY DEF StartFirmware, NewProcess, Boot, Resting
  <1> QED
    BY <1>1, AtRestNext DEF SysNext

\* What the main loop does to the numbers, and where.
LEMMA LoopNumbers ==
  ASSUME SysTyped, LoopStep
  PROVE  /\ UNCHANGED flag
         /\ ~Arm => UNCHANGED <<stream, holds>>
         /\ ~SetStart => UNCHANGED starts
         /\ ~FsmDone => UNCHANGED mArrayDdrBuffIndex
  <1>1. MainLoop /\ ~AbortSet
    BY CalmLoop DEF LoopStep
  <1>2. UNCHANGED flag
    BY <1>1 DEF MainLoop, Poll, RxCommand, RxBuffer, Drained, ClearFlag, NoCommand, StartAllowed,
           StartRefused, SetStart, ExitCommand, OtherCommand, Treat, NoSdbEvent, AcceptBuffer,
           RejectBuffer, FsmRest, FsmStart, Arm, ArmRefused, FsmDone, FsmAbort, SetIdle, Fsm, dmaVars
  <1>3. ~Arm => UNCHANGED stream
    BY <1>1 DEF MainLoop, Poll, RxCommand, RxBuffer, Drained, ClearFlag, NoCommand, StartAllowed,
           StartRefused, SetStart, ExitCommand, OtherCommand, Treat, NoSdbEvent, AcceptBuffer,
           RejectBuffer, FsmRest, FsmStart, ArmRefused, FsmDone, FsmAbort, SetIdle, Fsm, dmaVars
  <1>4. ~Arm => UNCHANGED holds
    <2> SUFFICES ASSUME ~Arm PROVE holds' = holds
      OBVIOUS
    <2>1. holds \in [Index -> Nat]
      BY DEF SysTyped, EntryTyped
    <2>2. ~(stream' = "on" /\ stream = "off")
      BY <1>3
    <2>3. holds' = [i \in Index |-> holds[i]]
      BY <2>2 DEF LoopStep, Overwritten
    <2> QED
      BY <2>1, <2>3
  <1>5. ~SetStart => UNCHANGED starts
    BY <1>1 DEF MainLoop, Poll, RxCommand, RxBuffer, Drained, ClearFlag, NoCommand, StartAllowed,
           StartRefused, ExitCommand, OtherCommand, Treat, NoSdbEvent, AcceptBuffer,
           RejectBuffer, FsmRest, FsmStart, Arm, ArmRefused, FsmDone, FsmAbort, SetIdle, Fsm, histVars
  <1>6. ~FsmDone => UNCHANGED mArrayDdrBuffIndex
    BY <1>1 DEF MainLoop, Poll, RxCommand, RxBuffer, Drained, ClearFlag, NoCommand, StartAllowed,
           StartRefused, SetStart, ExitCommand, OtherCommand, Treat, NoSdbEvent, AcceptBuffer,
           RejectBuffer, FsmRest, FsmStart, Arm, ArmRefused, FsmAbort, SetIdle, Fsm, buffVars
  <1> QED
    BY <1>2, <1>3, <1>4, <1>5, <1>6

LEMMA NumbersLoop == Sample /\ Numbers /\ LoopStep => Numbers'
  <1>a. LoopStep => UNCHANGED orphaned
    BY DEF LoopStep
  <1> SUFFICES ASSUME Sample, Numbers, LoopStep, ~orphaned PROVE Numbers'
    BY <1>a DEF Numbers
  <1>0. /\ SysTyped /\ AtOnePlace /\ Known /\ Counts /\ Contents /\ TransfersWait
        /\ rvq \in Seq(Message) /\ toLinux \in Seq(Index) /\ starts \in Nat
    BY TransferWaits DEF Sample, Buffers, SysTyped, Calm, IInv, TypeOK, EntryTyped, OneSample, Numbers
  <1>1. /\ UNCHANGED <<main, thread, mMachineState, mDdrBuffAwaited, got, efd, writing_size, filled, stored,
                       linuxBufs, flag>>
        /\ ~FsmDone => UNCHANGED <<toLinux, mArrayDdrBuffIndex>>
        /\ ~RxCommand /\ ~RxBuffer => UNCHANGED rvq
        /\ ~Arm => UNCHANGED <<stream, holds>>
        /\ ~SetStart => UNCHANGED starts
    BY <1>0, LoopFrame, LoopNumbers
  <1>2. UNCHANGED <<Waiting, Reading, Sending>>
    BY <1>1 DEF Waiting, Reading, Sending
  <1>f. ASSUME ~FsmDone, ~Arm, ~SetStart,
               Asking' => Asking, Filling' => Filling, Full' => Full
        PROVE  Numbers'
    BY <1>f, <1>1, <1>2, NumbersKeep
  <1>g. ASSUME ~RxCommand, ~RxBuffer, Slotted' => Asking, Setting' => Asking PROVE Asking' => Asking
    BY <1>g, <1>1, <1>2 DEF Asking, Queued
  <1>3. CASE RxCommand \/ RxBuffer
    <2>1. /\ rvq # <<>> /\ rvq' = Tail(rvq) /\ UNCHANGED <<pc, fHDRStatus>>
          /\ Slotted' => Slotted \/ IsStart(Head(rvq))
      BY <1>3 DEF RxCommand, RxBuffer, Slotted, IsStart
    <2>2. Asking' => Asking
      BY <1>0, <1>2, <2>1, StartsTail DEF Asking, Queued, Setting
    <2>3. pc = "drain"
      BY <1>3 DEF RxCommand, RxBuffer
    <2>4. ~FsmDone /\ ~Arm /\ ~SetStart
      BY <2>3 DEF FsmDone, Fsm, Arm, SetStart
    <2>5. (Filling' => Filling) /\ (Full' => Full)
      BY <1>1, <2>1, <2>4 DEF Filling, Full
    <2> QED
      BY <1>f, <2>2, <2>4, <2>5
  <1>4. CASE Poll \/ Drained \/ ClearFlag \/ NoCommand \/ NoSdbEvent \/ AcceptBuffer \/ RejectBuffer
    <2>1. /\ pc \in {"poll", "drain", "ack", "cmd", "sdb"} /\ pc' \notin {"arm", "setstart"}
          /\ ~RxCommand /\ ~RxBuffer /\ Slotted' = Slotted
          /\ UNCHANGED fHDRStatus \/ fHDRStatus' = "IDLE"
      BY <1>4 DEF Poll, Drained, ClearFlag, NoCommand, NoSdbEvent, AcceptBuffer, RejectBuffer, RxCommand,
                  RxBuffer, Slotted
    <2>2. ~FsmDone /\ ~Arm /\ ~SetStart
      BY <2>1 DEF FsmDone, Fsm, Arm, SetStart
    <2>3. (Filling' => Filling) /\ (Full' => Full)
      BY <1>1, <2>1, <2>2 DEF Filling, Full
    <2>4. Asking' => Asking
      BY <1>g, <2>1 DEF Asking, Setting
    <2> QED
      BY <1>f, <2>2, <2>3, <2>4
  <1>5. CASE StartAllowed \/ StartRefused \/ OtherCommand
    <2>1. /\ pc = "cmd" /\ pc' # "arm" /\ ~Slotted' /\ UNCHANGED fHDRStatus
          /\ pc' = "setstart" => Slotted
      BY <1>5 DEF StartAllowed, StartRefused, OtherCommand, Treat, Slotted
    <2>2. ~FsmDone /\ ~Arm /\ ~SetStart /\ ~RxCommand /\ ~RxBuffer
      BY <2>1 DEF FsmDone, Fsm, Arm, SetStart, RxCommand, RxBuffer
    <2>3. (Filling' => Filling) /\ (Full' => Full)
      BY <1>1, <2>1, <2>2 DEF Filling, Full
    <2>4. Asking' => Asking
      BY <1>g, <2>1, <2>2 DEF Asking, Setting
    <2> QED
      BY <1>f, <2>2, <2>3, <2>4
  <1>6. CASE FsmRest \/ FsmStart
    <2>1. /\ pc = "fsm" /\ pc' # "setstart" /\ Slotted' = Slotted /\ (pc' = "arm" => fHDRStatus = "START")
          /\ fHDRStatus \in {"INIT", "IDLE", "WAIT", "START"}
          /\ UNCHANGED fHDRStatus \/ fHDRStatus' = "WAIT"
      BY <1>6 DEF FsmRest, FsmStart, Fsm, Slotted
    <2>2. ~FsmDone /\ ~Arm /\ ~SetStart /\ ~RxCommand /\ ~RxBuffer
      BY <2>1 DEF FsmDone, Fsm, Arm, SetStart, RxCommand, RxBuffer
    <2>3. (Filling' => Filling) /\ (Full' => Full)
      BY <1>1, <2>1, <2>2 DEF Filling, Full
    <2>4. Asking' => Asking
      BY <1>g, <2>1, <2>2 DEF Asking, Setting
    <2> QED
      BY <1>f, <2>2, <2>3, <2>4
  <1>7. CASE SetStart
    <2>1. /\ pc = "setstart" /\ starts' = starts + 1 /\ fHDRStatus' = "START" /\ pc' = "sdb"
          /\ UNCHANGED <<VirtUart0RxMsg, VirtUart0ChannelBuffRx>>
      BY <1>7 DEF SetStart
    <2>2. ~FsmDone /\ ~Arm /\ ~RxCommand /\ ~RxBuffer
      BY <2>1 DEF FsmDone, Fsm, Arm, RxCommand, RxBuffer
    <2>3. Setting /\ Asking /\ ~Asking'
      BY <1>0, <1>1, <1>2, <2>1, <2>2 DEF AtOnePlace, Asking, Queued, Slotted, Setting
    <2>4. starts = stored /\ filled = stored /\ mMachineState = "SAMP"
      BY <1>0, <2>3 DEF Counts, Known, Under
    <2>5. ~Full' /\ ~Reading /\ ~Waiting /\ ~Telling /\ ~Telling'
      BY <1>0, <1>1, <2>1, <2>2, <2>3 DEF TransfersWait, Full, AtOnePlace, Telling
    <2>6. Counts'
      BY <1>1, <1>2, <2>1, <2>3, <2>4, <2>5 DEF Counts
    <2>7. Contents'
      BY <1>0, <1>1, <1>2, <2>2, <2>5 DEF Contents, Reading
    <2> QED
      BY <2>6, <2>7 DEF Numbers
  <1>8. CASE Arm
    <2>1. /\ pc = "arm" /\ pc' = "poll" /\ UNCHANGED <<fHDRStatus, VirtUart0RxMsg, VirtUart0ChannelBuffRx>>
      BY <1>8 DEF Arm
    <2>2. ~FsmDone /\ ~SetStart /\ ~RxCommand /\ ~RxBuffer
      BY <2>1 DEF FsmDone, Fsm, SetStart, RxCommand, RxBuffer
    <2>3. fHDRStatus = "WAIT" /\ flag # "TC" /\ Sampling /\ Filling
      BY <1>0, <2>1 DEF TransfersWait, Sampling, Filling
    <2>4. ~Full' /\ ~Telling /\ ~Waiting /\ ~Reading /\ ~Asking /\ mMachineState = "SAMP"
      BY <1>0, <1>1, <2>1, <2>3 DEF Full, AtOnePlace, Known, Under
    <2>5. ~Asking'
      BY <1>1, <1>2, <2>1, <2>2, <2>4 DEF Asking, Queued, Slotted, Setting
    <2>6. ~Telling' /\ ~Waiting' /\ ~Reading' /\ UNCHANGED <<starts, toLinux>>
      BY <1>1, <1>2, <2>2, <2>4 DEF Telling
    <2>7. Counts'
      BY <1>0, <1>1, <2>3, <2>4, <2>5, <2>6 DEF Counts
    <2>8. Contents'
      BY <2>4, <2>6, EmptyElems DEF Contents, Telling, Waiting, Reading
    <2> QED
      BY <2>7, <2>8 DEF Numbers
  <1>9. CASE FsmDone
    <2>1. /\ pc = "fsm" /\ pc' = "poll" /\ fHDRStatus = "DONE" /\ fHDRStatus' = "IDLE"
          /\ UNCHANGED <<VirtUart0RxMsg, VirtUart0ChannelBuffRx>>
      BY <1>9 DEF FsmDone, Fsm
    <2>2. ~Arm /\ ~SetStart /\ ~RxCommand /\ ~RxBuffer
      BY <2>1 DEF Arm, SetStart, RxCommand, RxBuffer
    <2>3. stream # "on" /\ flag # "TC" /\ Sampling /\ Full
      BY <1>0, <2>1 DEF TransfersWait, Sampling, Full
    <2>4. /\ ~Telling /\ ~Waiting /\ ~Reading /\ ~Asking /\ mMachineState = "SAMP"
          /\ starts = stored + 1 /\ filled = starts /\ holds[mArrayDdrBuffIndex] = filled
      BY <1>0, <2>3 DEF AtOnePlace, Known, Under, Counts, Contents
    <2>5. ~Asking' /\ ~Full' /\ ~Filling' /\ ~Waiting' /\ ~Reading'
      BY <1>1, <1>2, <2>1, <2>2, <2>3, <2>4 DEF Asking, Queued, Slotted, Setting, Full, Filling
    <2>6. Counts'
      BY <1>1, <2>2, <2>4, <2>5 DEF Counts
    <2>7. Elems(toLinux') \subseteq {mArrayDdrBuffIndex}
      <3>1. toLinux = <<>> /\ mArrayDdrBuffIndex \in Index
        BY <1>9, <1>0, <2>4, AnnouncedIndex DEF Telling, SysTyped
      <3>2. Elems(Append(toLinux, mArrayDdrBuffIndex)) = Elems(toLinux) \cup {mArrayDdrBuffIndex}
        <4>1. toLinux \in Seq(Index)
          BY <1>0
        <4>2. mArrayDdrBuffIndex \in Index
          BY <3>1
        <4> QED
          BY <4>1, <4>2, AppendElems
      <3>3. toLinux' = Append(toLinux, mArrayDdrBuffIndex) \/ toLinux' = toLinux
        BY DEF LoopStep, Transmitted
      <3> QED
        BY <3>1, <3>2, <3>3, EmptyElems
    <2>8. \A i \in Elems(toLinux') : holds'[i] = filled'
      BY <1>1, <2>2, <2>4, <2>7
    <2>9. Contents'
      BY <2>5, <2>8 DEF Contents, Waiting, Reading
    <2> QED
      BY <2>6, <2>9 DEF Numbers
  <1> QED
    BY <1>0, <1>3, <1>4, <1>5, <1>6, <1>7, <1>8, <1>9, CalmLoop DEF LoopStep, MainLoop

LEMMA NumbersIrq == Sample /\ Numbers /\ (NewMsgStep \/ IrqStep) => Numbers'
  <1>a. NewMsgStep \/ IrqStep => UNCHANGED orphaned
    BY DEF NewMsgStep, IrqStep, sysVars
  <1> SUFFICES ASSUME Sample, Numbers, NewMsgStep \/ IrqStep, ~orphaned PROVE Numbers'
    BY <1>a DEF Numbers
  <1>1. UNCHANGED <<main, thread, mMachineState, mDdrBuffAwaited, got, efd, writing_size, toLinux, holds,
                    filled, stored>>
    BY DEF NewMsgStep, IrqStep, sysVars, appVars, entryVars, linkVars, sampleVars
  <1>2. UNCHANGED <<rvq, VirtUart0RxMsg, VirtUart0ChannelBuffRx, pc, linuxBufs, stream, starts,
                    mArrayDdrBuffIndex>>
    BY DEF NewMsgStep, IrqStep, IpccNewMsg, IrqComplete, IrqAborted, IrqError, DmaIrq,
           loopVars, buffVars, dmaVars, ipcVars, linuxVars, histVars
  <1>3. UNCHANGED <<Asking, Reading>>
    BY <1>1, <1>2 DEF Asking, Sending, Queued, Slotted, Setting, Reading
  <1>4. UNCHANGED <<flag, fHDRStatus>> \/ (flag = "TC" /\ flag' = "none" /\ fHDRStatus' \in {"DONE", fHDRStatus})
    <2>1. ~IrqError
      BY DEF IrqError, DmaIrq, Sample, Buffers, SysTyped, Calm, NoAbort
    <2> QED
      BY <2>1 DEF NewMsgStep, IrqStep, IpccNewMsg, IrqComplete, IrqAborted, DmaIrq, loopVars, dmaVars
  <1>5. (Filling' => Filling) /\ (Full' => Full)
    BY <1>2, <1>4 DEF Filling, Full
  <1> QED
    BY <1>1, <1>2, <1>3, <1>5, NumbersKeep

LEMMA NumbersStream == Sample /\ Numbers /\ StreamStep => Numbers'
  <1>a. StreamStep => UNCHANGED orphaned
    BY DEF StreamStep
  <1> SUFFICES ASSUME Sample, Numbers, StreamStep, ~orphaned PROVE Numbers'
    BY <1>a DEF Numbers
  <1>0. AtOnePlace /\ Known /\ Counts /\ TransfersWait
    BY TransferWaits DEF Sample, Buffers, OneSample, Numbers
  <1>1. /\ stream = "on" /\ stream' = "off" /\ flag' = "TC" /\ filled' = starts
        /\ holds' = [i \in Index |-> IF Mapped(i) /\ dst = Buffer(i) THEN starts ELSE holds[i]]
        /\ UNCHANGED <<main, thread, mMachineState, efd, linuxBufs, rvq, toLinux, VirtUart0RxMsg,
                       VirtUart0ChannelBuffRx, pc, fHDRStatus, starts, stored, mArrayDdrBuffIndex>>
    BY DEF StreamStep, StreamCompletes, appVars, entryVars, linkVars, loopVars, buffVars, ipcVars, linuxVars,
           histVars
  <1>2. fHDRStatus = "WAIT" /\ dst = Target /\ pc # "arm" /\ Sampling /\ Filling
    BY <1>0, <1>1 DEF TransfersWait, Sampling, Filling
  <1>3. /\ ~Asking /\ ~Telling /\ ~Waiting /\ ~Reading /\ mMachineState = "SAMP" /\ starts = stored + 1
    BY <1>0, <1>2 DEF AtOnePlace, Known, Under, Counts
  <1>4. ~Asking' /\ ~Telling' /\ ~Waiting' /\ ~Reading' /\ ~Filling'
    BY <1>1, <1>2, <1>3 DEF Asking, Sending, Queued, Slotted, Setting, Telling, Waiting, Reading, Filling
  <1>5. mArrayDdrBuffIndex \in Index /\ Mapped(mArrayDdrBuffIndex) /\ dst = Buffer(mArrayDdrBuffIndex)
    <2>1. /\ mArrayDdrBuffIndex \in Nat /\ mArrayDdrBuffIndex < mArrayDdrBuffCount
          /\ mArrayDdrBuffCount = DdrCnt
      BY <1>2 DEF Sample, Buffers, SysTyped, Calm, IInv, TypeOK, NoExit, Ordered
    <2>2. mArrayDdrBuffCount =< Len(linuxBufs) /\ Len(linuxBufs) =< NbBuf /\ Len(linuxBufs) \in Nat
      BY DEF Sample, Buffers, KnownBuffers, SessionInv, SysTyped, Calm, IInv, TypeOK
    <2>3. mArrayDdrBuffIndex \in 0 .. mArrayDdrBuffCount - 1
      BY <2>1, HdrAssumption
    <2>4. dst = mArrayDdrBuff[mArrayDdrBuffIndex]
      BY <1>2, <2>1 DEF Target
    <2>5. dst = Buffer(mArrayDdrBuffIndex)
      BY <2>3, <2>4 DEF Sample, Buffers, KnownBuffers
    <2> QED
      BY <2>1, <2>2, <2>5, HdrAssumption DEF Index, Mapped
  <1>6. holds'[mArrayDdrBuffIndex'] = filled'
    BY <1>1, <1>5
  <1>7. Counts'
    BY <1>1, <1>3, <1>4 DEF Counts
  <1>8. Contents'
    BY <1>4, <1>6, EmptyElems DEF Contents, Telling, Waiting, Reading
  <1> QED
    BY <1>7, <1>8 DEF Numbers

LEMMA NumbersDriver == Sample /\ Numbers /\ DriverCb => Numbers'
  <1>a. DriverCb => UNCHANGED orphaned
    BY DEF DriverCb
  <1> SUFFICES ASSUME Sample, Numbers, DriverCb, ~orphaned PROVE Numbers'
    BY <1>a DEF Numbers
  <1> DEFINE i == Head(toLinux)
  <1>0. /\ AtOnePlace /\ Known /\ Counts /\ Contents /\ TransfersWait
        /\ toLinux \in Seq(Index) /\ writing_size \in [Index -> Sizes]
    BY TransferWaits DEF Sample, Buffers, SysTyped, EntryTyped, OneSample, Numbers
  <1>1. /\ Telling /\ ~Waiting /\ toLinux' = <<>> /\ i \in Index
        /\ Rung(linuxBufs', efd') = {i}
        /\ writing_size' = [writing_size EXCEPT ![i] = Size]
    BY Signals DEF Sample
  <1>2. UNCHANGED <<vars, appVars, holds, filled, stored>>
    BY DEF DriverCb, sampleVars
  <1>3. UNCHANGED <<Asking, Reading, Filling, Full, starts, mMachineState, mArrayDdrBuffIndex>>
    BY <1>2 DEF vars, appVars, loopVars, buffVars, dmaVars, ipcVars, linuxVars, histVars, Asking, Sending, Queued,
                Slotted, Setting, Reading, Filling, Full
  <1>4. holds[i] = filled /\ starts = stored + 1 /\ filled = starts
    <2>1. i \in Elems(toLinux)
      BY <1>0, <1>1, TailElems DEF Telling
    <2> QED
      BY <1>0, <1>1, <2>1 DEF Counts, Contents
  <1>5. ~Reading
    BY <1>0, <1>1 DEF AtOnePlace
  <1>6. Counts'
    BY <1>0, <1>2, <1>3, <1>4, <1>5 DEF Counts
  <1>7. Contents'
    BY <1>0, <1>1, <1>2, <1>3, <1>4, <1>5, EmptyElems DEF Contents, Reading
  <1> QED
    BY <1>6, <1>7 DEF Numbers

LEMMA NumbersStep == Sample /\ Numbers /\ [SysNext]_sysState => Numbers'
  <1> SUFFICES ASSUME Sample, Numbers, UNCHANGED sysState, ~orphaned PROVE Numbers'
    BY NumbersMain, NumbersThread, NumbersEnds, NumbersBoot, NumbersLoop, NumbersIrq, NumbersStream,
       NumbersDriver DEF SysNext, Firmware, Numbers, sysState, sysVars
  <1>1. UNCHANGED <<mMachineState, starts, filled, stored, holds, writing_size, toLinux, linuxBufs, efd,
                    main, thread, mDdrBuffAwaited, got, rvq, VirtUart0RxMsg, VirtUart0ChannelBuffRx, pc,
                    fHDRStatus, stream, flag, mArrayDdrBuffIndex>>
    BY DEF sysState, sysVars, appVars, entryVars, linkVars, sampleVars, vars, loopVars, buffVars, dmaVars,
           ipcVars, linuxVars, histVars
  <1>2. UNCHANGED <<Asking, Filling, Full, Reading>>
    BY <1>1 DEF Asking, Sending, Queued, Slotted, Setting, Filling, Full, Reading
  <1> QED
    BY <1>1, <1>2, NumbersKeep

------------------------------------------------------------------------------
(* What follows of the three layers.                                        *)

SysInv == Sample /\ Numbers

LEMMA SysInvInit == SysInit => SysInv
  <1> SUFFICES ASSUME SysInit PROVE SysInv
    OBVIOUS
  <1>1. SysTyped
    BY CalmInit, SysTypedInit DEF SysTyped
  <1>2. Buffers /\ OneSample
    BY <1>1, BuffersInit, OneSampleInit DEF Buffers
  <1>3. Resting
    BY DEF SysInit, Init, Resting
  <1> QED
    BY <1>1, <1>2, <1>3, AtRest DEF SysInv, Sample

\* Theorem: the inductive invariant of the system.
THEOREM SysInvariant == SysSpec => []SysInv
  <1>1. SysInv /\ [SysNext]_sysState => SysInv'
    BY SampleStep, NumbersStep DEF SysInv
  <1> QED
    BY <1>1, SysInvInit, PTL DEF SysSpec, sysState

\* Theorem: sdb_thread always finds a size of its own for an event, while the
\* buffers are those the firmware knows.
THEOREM SizeAlwaysReal == SysSpec => []SizeIsReal
  <1>1. SysInv => SizeIsReal
    BY DEF SysInv, Numbers, Contents, SizeIsReal
  <1> QED
    BY <1>1, SysInvariant, PTL

\* Theorem: a start is refused only before the firmware knows the buffers.
THEOREM RefusedEarly == SysSpec => RefusedOnlyEarly
  <1>1. SysInv /\ StartRefused /\ ~orphaned => fHDRStatus = "INIT"
    <2> SUFFICES ASSUME SysInv, StartRefused, ~orphaned PROVE fHDRStatus = "INIT"
      OBVIOUS
    <2>1. Slotted /\ fHDRStatus # "IDLE"
      BY DEF StartRefused, Treat, Slotted
    <2>2. ~Sampling
      BY <2>1 DEF SysInv, Sample, OneSample, AtOnePlace, Asking
    <2> QED
      BY <2>1, <2>2 DEF SysInv, Sample, Buffers, SysTyped, Calm, NoAbort, IInv, TypeOK, Status, Sampling
  <1>2. SysInv => [StartRefused /\ ~orphaned => fHDRStatus = "INIT"]_<<vars, sysVars>>
    BY <1>1
  <1> QED
    BY <1>2, SysInvariant, PTL DEF RefusedOnlyEarly

\* A start is Ask, the end of a transfer is Fill, the write of the file is Store;
\* all else but a reboot and the loss of the buffers is a stutter.
LEMMA SessionStep == SysInv /\ SysInv' /\ [SysNext]_sysState => [Session!Next]_Session!vars
  <1> SUFFICES ASSUME SysInv, SysInv', [SysNext]_sysState PROVE [Session!Next]_Session!vars
    OBVIOUS
  <1> USE DEF Session!Next, Session!vars
  <1>0. orphaned \in BOOLEAN /\ orphaned' \in BOOLEAN
    BY DEF SysInv, Sample, Buffers, SysTyped, AppTyped
  <1>u. UNCHANGED <<starts, filled, stored, orphaned>> => [Session!Next]_Session!vars
    OBVIOUS
  <1>l. UNCHANGED <<starts, filled, stored>> /\ orphaned' => [Session!Next]_Session!vars
    BY <1>0 DEF Session!Lose
  <1>o. orphaned /\ orphaned' => [Session!Next]_Session!vars
    BY <1>0
  <1>1. CASE StartFirmware
    BY <1>1 DEF StartFirmware, Boot, Session!Restart
  <1>2. CASE ExitSteps \/ Deaths \/ FirmwareRunning
    <2>1. UNCHANGED <<starts, filled, stored>>
      BY <1>2 DEF ExitSteps, Deaths, Signal, Kill, Segfault, SizeFails, Unmap, CloseDevice, RequestStop,
         StopFirmware, FirmwareRunning, NewProcess, FreeBuffers, Quiet, sysVars, CoproSync_ShutdownCb,
         vars, histVars, sampleVars
    <2>2. orphaned => orphaned'
      BY <1>2, <1>0 DEF ExitSteps, Deaths, Signal, Kill, Segfault, SizeFails, Unmap, CloseDevice, RequestStop,
         StopFirmware, FirmwareRunning, FreeBuffers, Quiet, sysVars
    <2> QED
      BY <1>0, <1>u, <1>l, <2>1, <2>2
  <1>3. CASE MainThread
    BY <1>3, <1>u DEF MainThread, OpenTty, MapBuffer, StartSampling, SendStart, SetSamp, Quiet, sampleVars,
           SendCommand, SendBuffer, SendToM4, vars, histVars
  <1>4. CASE SdbThread /\ ~WriteFile
    BY <1>4, <1>u DEF SdbThread, PollEvents, PollNothing, ReadEvent, GetDataSize, NextBuffer, Quiet, sampleVars,
           vars, histVars
  <1>5. CASE WriteFile
    <2>1. /\ stored' = holds[mDdrBuffAwaited] /\ UNCHANGED <<starts, filled, orphaned>> /\ Reading
      BY <1>5 DEF WriteFile, vars, histVars, Reading
    <2>2. ~orphaned => stored < filled /\ stored' = filled
      BY <2>1 DEF SysInv, Sample, Buffers, SysTyped, EntryTyped, Numbers, Counts, Contents
    <2> QED
      BY <1>0, <1>o, <2>1, <2>2 DEF Session!Store
  <1>6. CASE LoopStep /\ SetStart
    <2>1. starts' = starts + 1 /\ UNCHANGED <<filled, stored, orphaned>> /\ Asking
      BY <1>6 DEF LoopStep, SetStart, Asking, Setting
    <2>2. ~orphaned => starts = stored
      BY <2>1 DEF SysInv, Numbers, Counts
    <2> QED
      BY <1>0, <1>o, <2>1, <2>2 DEF Session!Ask
  <1>7. CASE LoopStep /\ ~SetStart
    <2>1. UNCHANGED <<starts, filled, stored, orphaned>>
      BY <1>7, LoopFrame, LoopNumbers DEF SysInv, Sample, Buffers
    <2> QED
      BY <1>u, <2>1
  <1>8. CASE NewMsgStep \/ IrqStep \/ DriverCb
    BY <1>8, <1>u DEF NewMsgStep, IrqStep, DriverCb, IpccNewMsg, IrqComplete, IrqAborted, IrqError, DmaIrq,
                      sysVars, sampleVars, vars, histVars
  <1>9. CASE StreamStep
    <2>1. filled' = starts /\ UNCHANGED <<starts, stored, orphaned>> /\ Filling
      BY <1>9 DEF StreamStep, StreamCompletes, histVars, Filling
    <2>2. ~orphaned => filled < starts
      BY <2>1 DEF SysInv, Sample, Buffers, SysTyped, EntryTyped, Numbers, Counts
    <2> QED
      BY <1>0, <1>o, <2>1, <2>2 DEF Session!Fill
  <1>10. CASE UNCHANGED sysState
    BY <1>10, <1>u DEF sysState, sysVars, sampleVars, vars, histVars
  <1> QED
    BY <1>1, <1>2, <1>3, <1>4, <1>5, <1>6, <1>7, <1>8, <1>9, <1>10 DEF SysNext, Firmware

\* Theorem: the application, the driver and the firmware together keep the
\* promise of SamplingSession: what is stored is the sample last asked for.
THEOREM SessionKept == SysSpec => Implements
  <1>1. SysInit => Session!Init
    BY DEF SysInit, Init, Session!Init
  <1> QED
    BY <1>1, SessionStep, SysInvariant, PTL DEF SysSpec, sysState, Implements, Session!Spec
==============================================================================
