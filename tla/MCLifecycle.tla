---------------------------- MODULE MCLifecycle ----------------------------
(* The child threads of the server and of the default role, for TLC. *)
EXTENDS Lifecycle

ServerChildren == {"srv", "shell", "alrm"}
DefaultChildren == {"proc", "srvV1", "shell", "alrm"}

\* A bound: the stop comes when every thread is up and in its loop.
StopWhenUp == sig # "none" => \A t \in Threads : pc[t] \notin {"unborn", "born", "create", "set"}
=============================================================================
