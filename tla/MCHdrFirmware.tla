---------------------------- MODULE MCHdrFirmware ----------------------------
(* Instances of HdrFirmware for TLC; the .cfg files give the constants.       *)
EXTENDS HdrFirmware
==============================================================================
