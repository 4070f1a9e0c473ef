------------------------------ MODULE MCVring ------------------------------
(* Instances of Vring for TLC; the buffers are model values.                   *)
EXTENDS Vring

CONSTANTS b1, b2, b3, b4
==============================================================================
