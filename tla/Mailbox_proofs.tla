--------------------------- MODULE Mailbox_proofs ---------------------------
(***************************************************************************)
(* Proofs about Mailbox: for every size of the vrings a message that waits *)
(* for the firmware is announced, unless it came after the last look of    *)
(* the receive callback and before the flag was cleared.                   *)
(***************************************************************************)
EXTENDS Mailbox, TLAPS

\* When the callback has returned, what is in the vring came after its last look.
Looked == pc = "ack2" /\ late = "no" => rvq = 0

IInv == TypeOK /\ Looked /\ RingAnnounced

LEMMA IInvInit == Init => IInv
  BY MailboxAssumption DEF Init, IInv, TypeOK, Looked, RingAnnounced, Channel

\* Every step keeps the types: a handler serves a channel the A7 occupies, and a
\* message is only added where there is room.
LEMMA TypedStep == TypeOK /\ [Next]_vars => TypeOK'
  <1> SUFFICES ASSUME TypeOK, [Next]_vars PROVE TypeOK'
    OBVIOUS
  <1> USE MailboxAssumption
  <1>1. CASE A7Send
    BY <1>1 DEF A7Send, TypeOK, Channel, flagVars, ipccVars
  <1>2. ASSUME NEW c \in Channel, A7Kick(c) PROVE TypeOK'
    BY <1>2 DEF A7Kick, TypeOK, Channel, flagVars
  <1>3. CASE A7RxIrq
    BY <1>3 DEF A7RxIrq, TypeOK, Channel, flagVars
  <1>3a. CASE A7Work
    <2>1. UNCHANGED <<pc, flagVars, ipccVars, rvq, late>>
      BY <1>3a DEF A7Work
    <2>2. svq' \in 0 .. RingSize /\ work' \in {"none", "pending"}
      BY <1>3a DEF A7Work
    <2>3. kick' \subseteq Channel
      BY <1>3a DEF A7Work, TypeOK, Channel
    <2> QED
      BY <2>1, <2>2, <2>3 DEF TypeOK, flagVars, ipccVars
  <1>4. CASE Handler
    <2>1. CASE Interrupt
      BY <1>4, <2>1 DEF Interrupt, TypeOK, Channel, flagVars, a7Vars
    <2>2. CASE IPCC_channel1_callback
      BY <2>2 DEF IPCC_channel1_callback, Acknowledge, TypeOK, Channel, a7Vars
    <2>3. CASE IPCC_channel2_callback
      BY <2>3 DEF IPCC_channel2_callback, Acknowledge, TypeOK, Channel, a7Vars
    <2> QED
      BY <1>4, <2>1, <2>2, <2>3 DEF Handler
  <1>5. CASE MainLoop
    <2>1. CASE MAILBOX_Init
      BY <2>1 DEF MAILBOX_Init, Activate, Go, TypeOK, Channel, flagVars, a7Vars
    <2>2. CASE PollBufFree \/ PollNewMsg
      BY <2>2 DEF PollBufFree, PollNewMsg, Go, TypeOK, flagVars, ipccVars, a7Vars
    <2>3. CASE Receive \/ Received
      <3>1. rvq' \in 0 .. RingSize
        BY <2>3 DEF Receive, Received, TypeOK
      <3> QED
        BY <2>3, <3>1 DEF Receive, Received, Go, TypeOK, flagVars, ipccVars, a7Vars
    <2>4. CASE ClearNewMsg \/ NotifyFree
      BY <2>4 DEF ClearNewMsg, NotifyFree, Go, TypeOK, flagVars, ipccVars, a7Vars
    <2>5. CASE Send \/ NoSend
      <3>1. svq' \in 0 .. RingSize
        BY <2>5 DEF Send, NoSend, TypeOK
      <3> QED
        BY <2>5, <3>1 DEF Send, NoSend, Go, TypeOK, flagVars, ipccVars, a7Vars
    <2>6. CASE WaitFree \/ Notify
      BY <2>6 DEF WaitFree, Notify, Go, TypeOK, flagVars, ipccVars, a7Vars
    <2> QED
      BY <1>5, <2>1, <2>2, <2>3, <2>4, <2>5, <2>6 DEF MainLoop
  <1>6. CASE UNCHANGED vars
    BY <1>6 DEF vars, flagVars, ipccVars, a7Vars, TypeOK
  <1> QED
    BY <1>1, <1>2, <1>3, <1>3a, <1>4, <1>5, <1>6 DEF Next, A7Irq

\* The two facts about the receive vring, action by action.
LEMMA AnnouncedStep == IInv /\ [Next]_vars => Looked' /\ RingAnnounced'
  <1> SUFFICES ASSUME IInv, [Next]_vars PROVE Looked' /\ RingAnnounced'
    OBVIOUS
  <1> USE MailboxAssumption DEF IInv, TypeOK, Looked, RingAnnounced
  <1>1. CASE A7Send
    BY <1>1 DEF A7Send, flagVars, ipccVars
  <1>2. ASSUME NEW c \in Channel, A7Kick(c) PROVE Looked' /\ RingAnnounced'
    BY <1>2 DEF A7Kick, Channel, flagVars
  <1>3. CASE A7Irq
    BY <1>3 DEF A7Irq, A7RxIrq, A7Work, flagVars, ipccVars
  <1>4. CASE Handler
    BY <1>4 DEF Handler, Interrupt, IPCC_channel1_callback, IPCC_channel2_callback,
                Acknowledge, flagVars, a7Vars
  <1>5. CASE MainLoop
    <2>1. CASE MAILBOX_Init
      BY <2>1 DEF MAILBOX_Init, Activate, Go, flagVars, a7Vars
    <2>2. CASE PollBufFree \/ PollNewMsg
      BY <2>2 DEF PollBufFree, PollNewMsg, Go, flagVars, ipccVars, a7Vars
    <2>3. CASE Receive \/ Received
      BY <2>3 DEF Receive, Received, Go, flagVars, ipccVars, a7Vars
    <2>4. CASE ClearNewMsg \/ NotifyFree
      BY <2>4 DEF ClearNewMsg, NotifyFree, Go, flagVars, ipccVars, a7Vars
    <2>5. CASE Send \/ NoSend
      BY <2>5 DEF Send, NoSend, Go, flagVars, ipccVars, a7Vars
    <2>6. CASE WaitFree \/ Notify
      BY <2>6 DEF WaitFree, Notify, Go, flagVars, ipccVars, a7Vars
    <2> QED
      BY <1>5, <2>1, <2>2, <2>3, <2>4, <2>5, <2>6 DEF MainLoop
  <1>6. CASE UNCHANGED vars
    BY <1>6 DEF vars, flagVars, ipccVars, a7Vars
  <1> QED
    BY <1>1, <1>2, <1>3, <1>4, <1>5, <1>6 DEF Next

\* The inductive invariant holds in every reachable state.
THEOREM Invariant == Spec => []IInv
  <1>1. IInv /\ [Next]_vars => IInv'
    BY TypedStep, AnnouncedStep DEF IInv
  <1> QED
    BY IInvInit, <1>1, PTL DEF Spec

\* Types, and no vring ever holds more than RingSize messages.
THEOREM TypeCorrect == Spec => []TypeOK
  <1>1. IInv => TypeOK
    BY DEF IInv
  <1> QED
    BY Invariant, <1>1, PTL

\* A message in the receive vring is announced, but for the one window of
\* MAILBOX_Poll between the processing and the clearing of the flag.
THEOREM Announced == Spec => []RingAnnounced
  <1>1. IInv => RingAnnounced
    BY DEF IInv
  <1> QED
    BY Invariant, <1>1, PTL
==============================================================================
