---------------------------- MODULE MCEchoFirmware ----------------------------
(* Instances of EchoFirmware for TLC; the .cfg file gives the constants.      *)
EXTENDS EchoFirmware
==============================================================================
