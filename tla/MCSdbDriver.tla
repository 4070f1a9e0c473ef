----------------------------- MODULE MCSdbDriver -----------------------------
(* Instances of SdbDriver for TLC. The threads are model values; a bounded   *)
(* run ends when the entries and the announcements are used up.              *)
EXTENDS SdbDriver

CONSTANTS main, sdb, other
==============================================================================
