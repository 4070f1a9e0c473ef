------------------------------- MODULE Mailbox -------------------------------
(***************************************************************************)
(* The mailbox between Linux (A7) and the firmware (M4): two channels of   *)
(* the IPCC, the interrupt handler of the HAL, and CM4/OPENAMP/mbox_ipcc.c *)
(* that polls the flags which the interrupt leaves behind.                 *)
(*                                                                         *)
(* Channel 1 carries "new message" from the M4 and "buffer free" from the  *)
(* A7; channel 2 the converse.  Of each vring only the number of messages  *)
(* that wait in it is kept.  The M4 is one core: the main loop does not    *)
(* move while the interrupt handler runs, but the A7 does.                 *)
(***************************************************************************)
EXTENDS Integers

CONSTANT RingSize      \* VRING_NUM_BUFFS

ASSUME MailboxAssumption == RingSize \in Nat \ {0}

VARIABLES
  pc,                 \* where the main loop of the M4 is
  msg_received_ch1, msg_received_ch2,
  isr,                \* channels the interrupt handler has still to serve
  C1SR, C2SR,         \* channels occupied by the A7, by the M4
  C2MR,               \* channels whose interrupt the M4 has masked
  callbackRequest,    \* channels the M4 has activated
  svq, rvq,           \* messages that wait for the A7, for the M4
  kick,               \* channels the A7 will occupy as soon as they are free
  work,               \* "pending" when the A7 has queued the processing of its vring
  late                \* history: a message arrived after the last look at the vring

ipccVars == <<isr, C1SR, C2SR, C2MR, callbackRequest>>
flagVars == <<msg_received_ch1, msg_received_ch2>>
a7Vars   == <<kick, work>>
vars == <<pc, flagVars, ipccVars, svq, rvq, a7Vars, late>>

Channel == {1, 2}

\* Linux kicks its receive vring when it starts, before the M4 listens.
Init ==
  /\ pc = "init1"
  /\ msg_received_ch1 = "RX_NO_MSG" /\ msg_received_ch2 = "RX_NO_MSG"
  /\ isr = {} /\ C1SR = {} /\ C2SR = {} /\ C2MR = Channel /\ callbackRequest = {}
  /\ svq = 0 /\ rvq = 0
  /\ kick = {1} /\ work = "none"
  /\ late = "no"

------------------------------------------------------------------------------
(* The A7: remoteproc and the mailbox driver of Linux.                      *)

\* One sender at a time, which waits until its kick has been delivered.
A7Send ==
  /\ pc \notin {"init1", "init2"}
  /\ rvq < RingSize /\ 2 \notin kick
  /\ rvq' = rvq + 1
  /\ kick' = kick \cup {2}
  /\ late' = IF pc = "ack2" THEN "yes" ELSE late
  /\ UNCHANGED <<pc, flagVars, ipccVars, svq, work>>

A7Kick(c) ==
  /\ c \in kick \ C1SR
  /\ C1SR' = C1SR \cup {c}
  /\ kick' = kick \ {c}
  /\ UNCHANGED <<pc, flagVars, isr, C2SR, C2MR, callbackRequest, svq, rvq, work, late>>

A7RxIrq ==
  /\ 1 \in C2SR
  /\ C2SR' = C2SR \ {1}
  /\ work' = "pending"
  /\ UNCHANGED <<pc, flagVars, isr, C1SR, C2MR, callbackRequest, svq, rvq, kick, late>>

\* The messages are read and their buffers given back.
A7Work ==
  /\ work = "pending"
  /\ work' = "none"
  /\ svq' = 0
  /\ kick' = IF svq > 0 THEN kick \cup {1} ELSE kick
  /\ UNCHANGED <<pc, flagVars, ipccVars, rvq, late>>

------------------------------------------------------------------------------
(* The interrupt handler, HAL_IPCC_RX_IRQHandler.                           *)

\* The channels to serve are read once; what comes later raises it again.
Interrupt ==
  /\ isr = {}
  /\ C1SR \ C2MR # {}
  /\ isr' = C1SR \ C2MR
  /\ UNCHANGED <<pc, flagVars, C1SR, C2SR, C2MR, callbackRequest, svq, rvq, a7Vars, late>>

\* Mutant: the interrupt stays masked.
AcknowledgeMasked(c) ==
  /\ C1SR' = C1SR \ {c}
  /\ C2MR' = C2MR \cup {c}

\* HAL_IPCC_NotifyCPU towards the sender: the channel, masked by the handler, is
\* freed, and unmasked again if a callback was asked for.
Acknowledge(c) ==
  /\ C1SR' = C1SR \ {c}
  /\ C2MR' = IF c \in callbackRequest THEN C2MR \ {c} ELSE C2MR \cup {c}

IPCC_channel1_callback ==
  /\ 1 \in isr
  /\ isr' = isr \ {1}
  /\ msg_received_ch1' = "RX_BUF_FREE"
  /\ Acknowledge(1)
  /\ UNCHANGED <<pc, msg_received_ch2, C2SR, callbackRequest, svq, rvq, a7Vars, late>>

IPCC_channel2_callback ==
  /\ isr = {2}
  /\ isr' = {}
  /\ msg_received_ch2' = "RX_NEW_MSG"
  /\ Acknowledge(2)
  /\ UNCHANGED <<pc, msg_received_ch1, C2SR, callbackRequest, svq, rvq, a7Vars, late>>

Handler == Interrupt \/ IPCC_channel1_callback \/ IPCC_channel2_callback

------------------------------------------------------------------------------
(* The main loop of the M4.                                                 *)

Go(from, to) == isr = {} /\ pc = from /\ pc' = to

\* MAILBOX_Init: HAL_IPCC_ActivateNotification on one channel, then the other.
Activate(c) ==
  /\ callbackRequest' = callbackRequest \cup {c}
  /\ C2MR' = C2MR \ {c}
  /\ UNCHANGED <<flagVars, isr, C1SR, C2SR, svq, rvq, a7Vars, late>>

MAILBOX_Init == \/ Go("init1", "init2") /\ Activate(1)
                \/ Go("init2", "poll1") /\ Activate(2)

\* MAILBOX_Poll, channel 1: the transmit vring has nothing to do.
PollBufFree ==
  /\ Go("poll1", "poll2")
  /\ msg_received_ch1' = "RX_NO_MSG"
  /\ UNCHANGED <<msg_received_ch2, ipccVars, svq, rvq, a7Vars, late>>

\* MAILBOX_Poll, channel 2: the receive vring is processed if the flag is set.
PollNewMsg ==
  /\ Go("poll2", IF msg_received_ch2 = "RX_NEW_MSG" THEN "drain" ELSE "send")
  /\ UNCHANGED <<flagVars, ipccVars, svq, rvq, a7Vars, late>>

\* Mutant: one message is taken each time.
ReceiveOne ==
  /\ Go("drain", "ack2")
  /\ rvq > 0
  /\ rvq' = rvq - 1
  /\ UNCHANGED <<flagVars, ipccVars, svq, a7Vars, late>>

\* rpmsg_virtio_rx_callback, which goes on until the vring is empty.
Receive ==
  /\ Go("drain", "drain")
  /\ rvq > 0
  /\ rvq' = rvq - 1
  /\ UNCHANGED <<flagVars, ipccVars, svq, a7Vars, late>>

Received ==
  /\ Go("drain", "ack2")
  /\ rvq = 0
  /\ late' = "no"
  /\ UNCHANGED <<flagVars, ipccVars, svq, rvq, a7Vars>>

\* The flag is cleared after the processing, whatever happened meanwhile.
ClearNewMsg ==
  /\ Go("ack2", "free")
  /\ msg_received_ch2' = "RX_NO_MSG"
  /\ UNCHANGED <<msg_received_ch1, ipccVars, svq, rvq, a7Vars, late>>

\* rproc_virtio_notified(NULL, VRING1_ID) returns -EINVAL.
NotifyFree ==
  /\ Go("free", "send")
  /\ UNCHANGED <<flagVars, ipccVars, svq, rvq, a7Vars, late>>

\* The application sends a message, or not.
Send ==
  /\ Go("send", "wait")
  /\ svq < RingSize
  /\ svq' = svq + 1
  /\ UNCHANGED <<flagVars, ipccVars, rvq, a7Vars, late>>

NoSend ==
  /\ Go("send", "poll1")
  /\ UNCHANGED <<flagVars, ipccVars, svq, rvq, a7Vars, late>>

\* Mutant: the loop waits while the channel is free.
WaitOccupied ==
  /\ Go("wait", "notify")
  /\ 1 \in C2SR
  /\ UNCHANGED <<flagVars, ipccVars, svq, rvq, a7Vars, late>>

\* MAILBOX_Notify: the loop that waits until the channel is free ...
WaitFree ==
  /\ Go("wait", "notify")
  /\ 1 \notin C2SR
  /\ UNCHANGED <<flagVars, ipccVars, svq, rvq, a7Vars, late>>

\* Mutant: a message for the A7 is announced on the other channel.
NotifyOther ==
  /\ Go("notify", "poll1")
  /\ C2SR' = C2SR \cup {2}
  /\ UNCHANGED <<flagVars, isr, C1SR, C2MR, callbackRequest, svq, rvq, a7Vars, late>>

\* ... and then occupies it.
Notify ==
  /\ Go("notify", "poll1")
  /\ C2SR' = C2SR \cup {1}
  /\ UNCHANGED <<flagVars, isr, C1SR, C2MR, callbackRequest, svq, rvq, a7Vars, late>>

MainLoop == \/ MAILBOX_Init \/ PollBufFree \/ PollNewMsg \/ Receive \/ Received
            \/ ClearNewMsg \/ NotifyFree \/ Send \/ NoSend \/ WaitFree \/ Notify

A7Irq == A7RxIrq \/ A7Work
Next == A7Send \/ (\E c \in Channel : A7Kick(c)) \/ A7Irq \/ Handler \/ MainLoop

Spec == Init /\ [][Next]_vars

\* The loop never stops, a pending interrupt is taken and handled, and Linux
\* delivers its kicks and reads its mail. Nobody is obliged to send.
Fairness ==
  /\ WF_vars(MainLoop)
  /\ WF_vars(Handler)
  /\ \A c \in Channel : WF_vars(A7Kick(c))
  /\ WF_vars(A7RxIrq) /\ WF_vars(A7Work)

FairSpec == Spec /\ Fairness

------------------------------------------------------------------------------
(* Properties.                                                              *)

\* Types; the vrings never hold more than their size.
TypeOK ==
  /\ pc \in {"init1", "init2", "poll1", "poll2", "drain", "ack2", "free",
             "send", "wait", "notify"}
  /\ msg_received_ch1 \in {"RX_NO_MSG", "RX_BUF_FREE"}
  /\ msg_received_ch2 \in {"RX_NO_MSG", "RX_NEW_MSG"}
  /\ isr \subseteq C1SR /\ C1SR \subseteq Channel /\ C2SR \subseteq {1}
  /\ C2MR \subseteq Channel /\ callbackRequest \subseteq Channel
  /\ svq \in 0 .. RingSize /\ rvq \in 0 .. RingSize
  /\ kick \subseteq Channel /\ work \in {"none", "pending"} /\ late \in {"no", "yes"}

\* A message in the receive vring is still announced: by a kick, by the channel,
\* by the flag or by the loop that empties the vring. The one exception is a
\* message that came after that loop and before MAILBOX_Poll clears the flag.
RingAnnounced ==
  rvq > 0 /\ late = "no" =>
    2 \in kick \/ 2 \in C1SR \/ msg_received_ch2 = "RX_NEW_MSG"

\* ... hence, but for that exception, the loop comes to it (it may then go on for
\* ever if Linux keeps sending).
RingServed == rvq > 0 /\ late = "no" ~> pc = "drain" \/ late = "yes"

\* The busy wait of MAILBOX_Notify ends, also while Linux is waiting for the M4.
NotifyReturns == pc = "wait" ~> pc = "poll1"

\* Every message of the M4 is read by Linux, although MAILBOX_Notify is called
\* after the message is in the vring and Linux may look at any time.
MessagesRead == svq > 0 ~> svq = 0

\* mbox_ipcc.c:106 "If we got an interrupt, ask for the corresponding virtqueue
\* processing": a message that was announced is processed.
ServedAfterInterrupt == rvq > 0 ~> pc = "drain"
==============================================================================
