------------------------------ MODULE SdbSystem ------------------------------
(***************************************************************************)
(* The sampling application (1_userland_app/rpmsg_sdb_app), the driver     *)
(* rpmsg_sdb and the firmware of exchange_large_buf, running together.     *)
(* The firmware is HdrFirmware, step for step.  The driver is reduced to   *)
(* what SdbDriver shows of it: entries in the order of their indices, an   *)
(* announcement that sets the size and signals the event, a read that      *)
(* takes the size.                                                         *)
(*                                                                         *)
(* The application has two threads that share mMachineState and            *)
(* mDdrBuffAwaited without a lock, and a signal handler that takes over    *)
(* the main thread anywhere.  It may also die; the firmware then runs on   *)
(* and the next instance of the application finds it running.              *)
(***************************************************************************)
EXTENDS HdrFirmware

CONSTANT MaxDropped   \* bound: announcements the firmware fails to send

\* The application writes "S" to ask for a sample and "R" to be answered.
ASSUME SystemAssumption == MaxDropped \in Nat /\ NbBuf > 0 /\ {"S", "R"} \subseteq Cmds

VARIABLES
  fw,               \* remoteproc: "off" or "running"
  main,             \* the main thread of the application, or "none" without one
  thread,           \* sdb_thread
  mMachineState, mDdrBuffAwaited,
  fMappedData,
  efd,              \* the counters of the eventfds
  writing_size,     \* per entry of the driver
  toLinux,          \* announcements in the transmit vring, by index
  got,              \* what GET_DATA_SIZE returned to sdb_thread
  dropped,          \* history: announcements lost in RPMSG_HDR_Transmit
  orphaned,         \* history: buffers were freed under the running firmware
  holds,            \* history: number of the sample in each buffer, 0 for none
  filled, stored    \* history: numbers of the last sample delivered and stored

appVars   == <<main, thread, mMachineState, mDdrBuffAwaited, fMappedData, got>>
entryVars == <<efd, writing_size>>
linkVars  == <<fw, toLinux, dropped>>
sampleVars == <<holds, filled, stored>>
sysVars == <<appVars, entryVars, linkVars, orphaned, sampleVars>>

Index == 0 .. NbBuf - 1
Size == "size"          \* SAMP_DDR_BUFFER_SIZE
Unset == "-1"           \* what GET_DATA_SIZE leaves behind
Garbage == "garbage"    \* what kmalloc left

\* The buffers of the entries, by index.
Buffer(i) == linuxBufs[i + 1]
Mapped(i) == i < Len(linuxBufs)

SysInit ==
  /\ Init
  /\ fw = "off" /\ main = "none" /\ thread = "top"
  /\ mMachineState = "IDLE" /\ mDdrBuffAwaited = 0 /\ fMappedData = FALSE
  /\ efd = [i \in Index |-> 0] /\ writing_size = [i \in Index |-> Garbage]
  /\ toLinux = <<>> /\ got = Unset
  /\ dropped = 0 /\ orphaned = FALSE
  /\ holds = [i \in Index |-> 0] /\ filled = 0 /\ stored = 0

------------------------------------------------------------------------------
(* The main thread.                                                         *)

\* A fresh process, if the bounds leave room for a session.
NewProcess ==
  /\ main = "none" /\ main' = "tty"
  /\ sent + NbBuf + 2 =< MaxMsgs /\ allocated + NbBuf =< MaxAddr
  /\ mMachineState' = "IDLE" /\ mDdrBuffAwaited' = 0 /\ thread' = "top"
  /\ UNCHANGED <<fMappedData, got, entryVars, linuxVars>>

\* main() of the firmware up to its loop, in a memory that was loaded anew.
Boot ==
  /\ pc' = "poll"
  /\ fHDRStatus' = "INIT"
  /\ VirtUart0RxMsg' = "RESET" /\ VirtUart0ChannelBuffRx' = "none"
  /\ SDB0RxMsg' = "RESET" /\ SDB0ChannelBuffRx' = NoBuf
  /\ mArrayDdrBuff' = [i \in 0 .. DdrCnt - 1 |-> Null]
  /\ mArrayDdrBuffIndex' = 0 /\ mArrayDdrBuffCount' = 0
  /\ msg_received_ch2' = "RX_NO_MSG"
  /\ hdma' = [State |-> "READY", Lock |-> "UNLOCKED"]
  /\ stream' = "off" /\ dst' = Null /\ flag' = "none" /\ fill' = NoFill
  /\ dmaIrq' = "enabled" /\ shutdown' = "none"
  /\ rvq' = <<>> /\ kicks' = 0
  /\ starts' = 0 /\ announced' = 0 /\ earlyExits' = 0

\* copro_startFw: the vrings and the DMA controller start afresh as well.
StartFirmware ==
  /\ NewProcess
  /\ fw = "off" /\ fw' = "running"
  /\ Boot
  /\ toLinux' = <<>> /\ orphaned' = FALSE
  /\ holds' = [i \in Index |-> 0] /\ filled' = 0 /\ stored' = 0
  /\ UNCHANGED dropped

\* "is already running": it is used as it is.
FirmwareRunning ==
  /\ NewProcess
  /\ fw = "running"
  /\ UNCHANGED <<loopVars, buffVars, dmaVars, ipcVars, haltVars, histVars,
                 linkVars, orphaned, sampleVars>>

\* The tty is opened, and a first message lets the firmware answer on it.
OpenTty ==
  /\ main = "tty" /\ main' = "open"
  /\ SendCommand("R")
  /\ UNCHANGED <<thread, mMachineState, mDdrBuffAwaited, fMappedData, got,
                 entryVars, linkVars, orphaned, sampleVars>>

\* SET_EFD and mmap of the next buffer; after the last, the main loop begins.
MapBuffer ==
  /\ main = "open"
  /\ SendBuffer
  /\ LET i == Len(linuxBufs)
     IN /\ efd' = [efd EXCEPT ![i] = 0]
        /\ writing_size' = [writing_size EXCEPT ![i] = Garbage]
        /\ holds' = [holds EXCEPT ![i] = 0]
        /\ main' = IF i + 1 = NbBuf THEN "loop" ELSE "open"
  /\ fMappedData' = TRUE
  /\ UNCHANGED <<thread, mMachineState, mDdrBuffAwaited, got, linkVars, orphaned, filled, stored>>

Quiet == UNCHANGED <<vars, entryVars, linkVars, orphaned, sampleVars>>

\* The start is sent whatever became of the last sample.
StartWithoutWait ==
  /\ main = "loop" /\ sent < MaxMsgs
  /\ main' = "send"
  /\ mMachineState' = "SAMP" /\ mDdrBuffAwaited' = 0
  /\ UNCHANGED <<thread, fMappedData, got>> /\ Quiet

\* sampling_start up to its command.
StartSampling ==
  /\ main = "loop" /\ sent < MaxMsgs
  /\ mMachineState = "IDLE"
  /\ main' = "send"
  /\ mMachineState' = "SAMP" /\ mDdrBuffAwaited' = 0
  /\ UNCHANGED <<thread, fMappedData, got>> /\ Quiet

SendStart ==
  /\ main = "send" /\ main' = "again"
  /\ SendCommand("S")
  /\ UNCHANGED <<thread, mMachineState, mDdrBuffAwaited, fMappedData, got,
                 entryVars, linkVars, orphaned, sampleVars>>

\* The main loop writes the state once more.
SetSamp ==
  /\ main = "again" /\ main' = "loop"
  /\ mMachineState' = "SAMP"
  /\ UNCHANGED <<thread, mDdrBuffAwaited, fMappedData, got>> /\ Quiet

MainThread == OpenTty \/ MapBuffer \/ StartSampling \/ SendStart \/ SetSamp

------------------------------------------------------------------------------
(* sdb_thread.                                                              *)

Alive == main # "none"

PollEvents ==
  /\ Alive /\ thread = "top" /\ mMachineState = "SAMP"
  /\ thread' = "poll"
  /\ UNCHANGED <<main, mMachineState, mDdrBuffAwaited, fMappedData, got>> /\ Quiet

\* After 60 seconds, or for an event of another buffer: back to the top.
PollNothing ==
  /\ Alive /\ thread = "poll" /\ efd[mDdrBuffAwaited] = 0
  /\ thread' = "top"
  /\ UNCHANGED <<main, mMachineState, mDdrBuffAwaited, fMappedData, got>> /\ Quiet

\* The event is seen but not read.
ReadEventKept ==
  /\ Alive /\ thread = "poll" /\ efd[mDdrBuffAwaited] > 0
  /\ thread' = "size"
  /\ UNCHANGED <<main, mMachineState, mDdrBuffAwaited, fMappedData, got>> /\ Quiet

\* poll and read: the counter of the eventfd becomes zero.
ReadEvent ==
  /\ Alive /\ thread = "poll" /\ efd[mDdrBuffAwaited] > 0
  /\ thread' = "size"
  /\ efd' = [efd EXCEPT ![mDdrBuffAwaited] = 0]
  /\ UNCHANGED <<main, mMachineState, mDdrBuffAwaited, fMappedData, got,
                 vars, writing_size, linkVars, orphaned, sampleVars>>

\* GET_DATA_SIZE, while the device is open.  An event comes after a size, so the
\* branch for an empty buffer is not taken.
GetDataSize ==
  /\ Alive /\ thread = "size" /\ Mapped(mDdrBuffAwaited)
  /\ got' = writing_size[mDdrBuffAwaited]
  /\ writing_size' = [writing_size EXCEPT ![mDdrBuffAwaited] = Unset]
  /\ thread' = "write"
  /\ UNCHANGED <<main, mMachineState, mDdrBuffAwaited, fMappedData,
                 vars, efd, linkVars, orphaned, sampleVars>>

\* The main loop is told before the file is written.
WriteFileLate ==
  /\ Alive /\ thread = "write" /\ fMappedData /\ got = Size
  /\ mMachineState' = "IDLE"
  /\ IF mMachineState = "IDLE"
     THEN stored' = holds[mDdrBuffAwaited] /\ thread' = "next"
     ELSE UNCHANGED <<stored, thread>>
  /\ UNCHANGED <<main, mDdrBuffAwaited, fMappedData, got,
                 vars, entryVars, linkVars, orphaned, holds, filled>>

\* write_raw_file, and the main loop may ask for the next sample.
WriteFile ==
  /\ Alive /\ thread = "write" /\ fMappedData /\ got = Size
  /\ stored' = holds[mDdrBuffAwaited]
  /\ mMachineState' = "IDLE"
  /\ thread' = "next"
  /\ UNCHANGED <<main, mDdrBuffAwaited, fMappedData, got,
                 vars, entryVars, linkVars, orphaned, holds, filled>>

\* A count that is compared too late.
NextBufferPast ==
  /\ Alive /\ thread = "next"
  /\ mDdrBuffAwaited' = IF mDdrBuffAwaited > NbBuf THEN 0 ELSE mDdrBuffAwaited + 1
  /\ thread' = "top"
  /\ UNCHANGED <<main, mMachineState, fMappedData, got>> /\ Quiet

NextBuffer ==
  /\ Alive /\ thread = "next"
  /\ mDdrBuffAwaited' = (mDdrBuffAwaited + 1) % NbBuf
  /\ thread' = "top"
  /\ UNCHANGED <<main, mMachineState, fMappedData, got>> /\ Quiet

SdbThread == PollEvents \/ PollNothing \/ ReadEvent \/ GetDataSize \/ WriteFile \/ NextBuffer

------------------------------------------------------------------------------
(* The end of the application.                                              *)

\* rpmsg_sdb_close frees the buffers, in use or not.
FreeBuffers ==
  /\ linuxBufs' = <<>>
  /\ orphaned' = (orphaned \/ linuxBufs # <<>>)
  /\ UNCHANGED <<loopVars, buffVars, dmaVars, ipcVars, allocated, sent, haltVars, histVars,
                 efd, writing_size, linkVars, sampleVars>>

\* SIGINT or SIGTERM: exit_fct takes over the main thread.
Signal ==
  /\ main \in {"tty", "open", "loop", "send", "again"}
  /\ main' = "unmap"
  /\ UNCHANGED <<thread, mMachineState, mDdrBuffAwaited, fMappedData, got>> /\ Quiet

Unmap ==
  /\ main = "unmap" /\ main' = "close"
  /\ fMappedData' = FALSE
  /\ UNCHANGED <<thread, mMachineState, mDdrBuffAwaited, got>> /\ Quiet

\* The device is closed before the firmware is stopped.
CloseDevice ==
  /\ main = "close" /\ main' = "stop"
  /\ FreeBuffers
  /\ UNCHANGED <<thread, mMachineState, mDdrBuffAwaited, fMappedData, got>>

\* copro_stopFw: the firmware acknowledges ...
RequestStop ==
  /\ main = "stop"
  /\ CoproSync_ShutdownCb
  /\ UNCHANGED sysVars

\* The process is gone, with its threads and mappings.
Gone ==
  /\ main' = "none" /\ thread' = "top" /\ mMachineState' = "IDLE" /\ mDdrBuffAwaited' = 0
  /\ fMappedData' = FALSE /\ got' = Unset

\* ... and is held in reset; the application exits.
StopFirmware ==
  /\ main = "stop" /\ shutdown = "acked"
  /\ Gone
  /\ fw' = "off"
  /\ UNCHANGED <<vars, entryVars, toLinux, dropped, orphaned, sampleVars>>

\* A process that dies inside the write of "stop" is gone after it.
Mortal == Alive /\ ~(main = "stop" /\ shutdown = "acked")

\* A SIGKILL, or an error exit.
Kill == Mortal /\ Gone /\ FreeBuffers

\* sdb_thread reads a buffer that exit_fct has unmapped, or -1 bytes of one.
Segfault ==
  /\ Mortal /\ thread = "write" /\ (~fMappedData \/ got # Size)
  /\ Gone /\ FreeBuffers

\* GET_DATA_SIZE on the closed descriptor: error(EXIT_FAILURE, ...).
SizeFails ==
  /\ Mortal /\ thread = "size" /\ ~Mapped(mDdrBuffAwaited)
  /\ Gone /\ FreeBuffers

ExitSteps == Unmap \/ CloseDevice \/ RequestStop \/ StopFirmware
Deaths == Signal \/ Kill \/ Segfault \/ SizeFails

------------------------------------------------------------------------------
(* The firmware, the DMA and the driver.                                    *)

\* RPMSG_HDR_Transmit, whose result is ignored.
Transmitted ==
  IF announced' > announced
  THEN \/ toLinux' = Append(toLinux, mArrayDdrBuffIndex) /\ UNCHANGED dropped
       \/ dropped < MaxDropped /\ dropped' = dropped + 1 /\ UNCHANGED toLinux
  ELSE UNCHANGED <<toLinux, dropped>>

\* What a buffer holds is lost when a transfer to it begins.
Overwritten ==
  holds' = [i \in Index |-> IF stream' = "on" /\ stream = "off" /\ Mapped(i) /\ dst' = Buffer(i)
                            THEN 0 ELSE holds[i]]

LoopStep ==
  /\ fw = "running"
  /\ MainLoop /\ Transmitted /\ Overwritten
  /\ UNCHANGED <<appVars, entryVars, fw, orphaned, filled, stored>>

NewMsgStep == fw = "running" /\ IpccNewMsg /\ UNCHANGED sysVars

IrqStep == fw = "running" /\ (IrqComplete \/ IrqAborted \/ IrqError) /\ UNCHANGED sysVars

\* The stream is not stopped with the core.
StreamStep ==
  /\ StreamCompletes
  /\ filled' = starts
  /\ holds' = [i \in Index |-> IF Mapped(i) /\ dst = Buffer(i) THEN starts ELSE holds[i]]
  /\ UNCHANGED <<appVars, entryVars, linkVars, orphaned, stored>>

\* The size is stored and no one is told.
DriverCbSilent ==
  /\ fw = "running" /\ toLinux # <<>>
  /\ toLinux' = Tail(toLinux)
  /\ writing_size' = [i \in Index |-> IF Mapped(i) /\ i = Head(toLinux) THEN Size
                                      ELSE writing_size[i]]
  /\ UNCHANGED <<vars, appVars, fw, efd, dropped, orphaned, sampleVars>>

\* rpmsg_sdb_drv_cb: an announcement of an entry that is not there is ignored.
DriverCb ==
  /\ fw = "running" /\ toLinux # <<>>
  /\ toLinux' = Tail(toLinux)
  /\ LET i == Head(toLinux)
     IN IF Mapped(i)
        THEN /\ writing_size' = [writing_size EXCEPT ![i] = Size]
             /\ efd' = [efd EXCEPT ![i] = @ + 1]
        ELSE UNCHANGED entryVars
  /\ UNCHANGED <<vars, appVars, fw, dropped, orphaned, sampleVars>>

Firmware == LoopStep \/ NewMsgStep \/ IrqStep \/ StreamStep

SysNext ==
  \/ StartFirmware \/ FirmwareRunning \/ MainThread \/ SdbThread
  \/ ExitSteps \/ Deaths
  \/ Firmware \/ DriverCb

SysSpec == SysInit /\ [][SysNext]_<<vars, sysVars>>

\* Threads and interrupts run when they can; no one is obliged to start the
\* application or to end it.
SysFairSpec ==
  /\ SysSpec
  /\ WF_<<vars, sysVars>>(LoopStep) /\ WF_<<vars, sysVars>>(NewMsgStep)
  /\ WF_<<vars, sysVars>>(IrqStep) /\ WF_<<vars, sysVars>>(StreamStep)
  /\ WF_<<vars, sysVars>>(DriverCb) /\ WF_<<vars, sysVars>>(MainThread)
  /\ WF_<<vars, sysVars>>(SdbThread)

------------------------------------------------------------------------------
(* Properties.                                                              *)

Sizes == {Size, Unset, Garbage}

\* Types; the awaited index stays one of a mapped buffer.
SysTypeOK ==
  /\ TypeOK
  /\ fw \in {"off", "running"}
  /\ main \in {"none", "tty", "open", "loop", "send", "again", "unmap", "close", "stop"}
  /\ thread \in {"top", "poll", "size", "write", "next"}
  /\ mMachineState \in {"IDLE", "SAMP"} /\ mDdrBuffAwaited \in Index
  /\ fMappedData \in BOOLEAN /\ got \in Sizes /\ orphaned \in BOOLEAN
  /\ efd \in [Index -> Nat] /\ writing_size \in [Index -> Sizes]
  /\ toLinux \in Seq(Index) /\ dropped \in 0 .. MaxDropped
  /\ holds \in [Index -> Nat] /\ filled \in Nat /\ stored \in Nat

\* The DMA writes to a buffer that is allocated at that moment, over every
\* restart of the application and the firmware, unless the device was closed
\* under the running firmware (exit_fct does, and so does a crash).
DmaIntoLiveMemory ==
  stream = "on" /\ ~orphaned => \E i \in Index : Mapped(i) /\ dst = Buffer(i)

\* sdb_thread never takes an event without a size of its own for it: there is
\* one event for each sample, and each is read before the next.
SizeIsReal == thread = "write" /\ ~orphaned => got = Size

\* The firmware refuses a start only before it knows the buffers: once a sample
\* has been stored it is ready for the next, though it announced the buffer
\* from the middle of its state machine.
RefusedOnlyEarly ==
  [][StartRefused /\ ~orphaned => fHDRStatus = "INIT"]_<<vars, sysVars>>

\* The system keeps the promise of a sampling session: the data stored is that
\* of the start that asked for it, never older, newer or half overwritten.
Session == INSTANCE SamplingSession WITH asked <- starts, sound <- ~orphaned
Implements == Session!Spec

\* An accepted start ends with its sample in the file, unless the announcement
\* is dropped, or the application is ended.
StartStored ==
  fHDRStatus = "START" /\ ~orphaned
    ~> stored = starts \/ dropped > 0 \/ orphaned \/ main \in {"none", "unmap", "close", "stop"}

\* rpmsg_sdb_app.c:512 "wait till at least one buffer becomes available": the
\* wait comes to an end.  It does not when the start was refused, or overtook
\* the buffer message in the mailbox.
WaitEnds ==
  main = "loop" /\ mMachineState = "SAMP" ~> mMachineState = "IDLE" \/ main # "loop"
==============================================================================
