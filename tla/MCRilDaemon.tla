------------------------------ MODULE MCRilDaemon ------------------------------
(* Model values for RilDaemon. *)
EXTENDS RilDaemon, TLC

CONSTANTS t1, dispatch, info1, info2, info3

MCFdEvents == {"wakeup", "listen", "commands"}
MCPersistent == {"wakeup", "commands"}

=============================================================================
