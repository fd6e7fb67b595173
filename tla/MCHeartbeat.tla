---------------------------- MODULE MCHeartbeat ----------------------------
(* Small instances of Heartbeat for TLC.                                      *)
EXTENDS Heartbeat, TLC

CONSTANTS i, c

\* A task due at every tick, and one due in the second of two minutes.
MCTasks == <<i, c>>
MCSchedule == (i :> [kind |-> "interval", every |-> 1]) @@ (c :> [kind |-> "cron", minute |-> 1])
=============================================================================
