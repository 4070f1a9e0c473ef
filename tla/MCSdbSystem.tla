----------------------------- MODULE MCSdbSystem -----------------------------
(* Instances of SdbSystem for TLC; the .cfg files give the constants.         *)
EXTENDS SdbSystem
==============================================================================
