------------------------------ MODULE MCRpmsg ------------------------------
EXTENDS Rpmsg
MCService == [e \in Epts |-> IF e = LogEpt THEN "rpmsg-tty-channel" ELSE "rpmsg-sdb-channel"]
=============================================================================
