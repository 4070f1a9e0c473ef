----------------------------- MODULE MCMailbox -----------------------------
(* Instances of Mailbox for TLC; the .cfg files give the constant.            *)
EXTENDS Mailbox
==============================================================================
