--------------------------- MODULE SamplingSession ---------------------------
(***************************************************************************)
(* What the sampling application, the driver and the firmware promise      *)
(* together: samples are asked for one at a time, each is put into the     *)
(* shared buffer after it was asked for, and it is this one that is        *)
(* stored, once, before the next is asked for.  In particular nothing is   *)
(* written to the buffer while it is being stored.                         *)
(*                                                                         *)
(* The promise ends when a buffer is taken away under a running firmware,  *)
(* and begins again when the firmware is started anew.                     *)
(***************************************************************************)
EXTENDS Naturals

VARIABLES
  asked,    \* number of the last sample asked for
  filled,   \* number of the last sample the coprocessor has delivered
  stored,   \* number of the last sample in the file
  sound     \* the buffers are those the firmware knows

vars == <<asked, filled, stored, sound>>

Init == asked = 0 /\ filled = 0 /\ stored = 0 /\ sound = TRUE

Ask   == asked = stored /\ asked' = asked + 1 /\ UNCHANGED <<filled, stored, sound>>
Fill  == filled < asked /\ filled' = asked /\ UNCHANGED <<asked, stored, sound>>
Store == stored < filled /\ stored' = filled /\ UNCHANGED <<asked, filled, sound>>

\* The application dies, or closes the device before it stops the firmware.
Lose == sound' = FALSE /\ UNCHANGED <<asked, filled, stored>>

\* Samples that are lost or left unstored are forgotten with the firmware.
Restart == asked' = 0 /\ filled' = 0 /\ stored' = 0 /\ sound' = TRUE

Next == (sound /\ (Ask \/ Fill \/ Store)) \/ Lose \/ Restart \/ (~sound /\ sound' = FALSE)

Spec == Init /\ [][Next]_vars
==============================================================================
