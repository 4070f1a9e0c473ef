---------------------------- MODULE BufferExchange ----------------------------
(***************************************************************************)
(* What a virtqueue promises to the two sides that share it: every buffer  *)
(* belongs to exactly one of them, or is on its way to one of them, in the *)
(* order in which it was handed over; at most Capacity buffers are away    *)
(* from the driver.                                                        *)
(***************************************************************************)
EXTENDS Integers, Sequences, FiniteSets

CONSTANTS Buf, Capacity

VARIABLES
  driver,     \* buffers of the driver
  device,     \* buffers of the device
  toDevice,   \* handed over, not yet taken
  toDriver    \* given back, not yet taken

vars == <<driver, device, toDevice, toDriver>>

Init == driver = Buf /\ device = {} /\ toDevice = <<>> /\ toDriver = <<>>

Offer(b) ==
  /\ b \in driver
  /\ Cardinality(Buf \ driver) < Capacity
  /\ driver' = driver \ {b}
  /\ toDevice' = Append(toDevice, b)
  /\ UNCHANGED <<device, toDriver>>

Take ==
  /\ toDevice # <<>>
  /\ device' = device \cup {Head(toDevice)}
  /\ toDevice' = Tail(toDevice)
  /\ UNCHANGED <<driver, toDriver>>

GiveBack(b) ==
  /\ b \in device
  /\ device' = device \ {b}
  /\ toDriver' = Append(toDriver, b)
  /\ UNCHANGED <<driver, toDevice>>

Reclaim ==
  /\ toDriver # <<>>
  /\ driver' = driver \cup {Head(toDriver)}
  /\ toDriver' = Tail(toDriver)
  /\ UNCHANGED <<device, toDevice>>

Next == (\E b \in Buf : Offer(b) \/ GiveBack(b)) \/ Take \/ Reclaim

Spec == Init /\ [][Next]_vars
==============================================================================
