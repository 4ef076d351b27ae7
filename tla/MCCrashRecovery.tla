--------------------------- MODULE MCCrashRecovery ---------------------------
(* Two deliveries of a run, each in a worker process of its own, and a      *)
(* third process, the leader, that sweeps. The run has a reading node n1    *)
(* and after it a writing node n2.                                          *)
EXTENDS CrashRecovery

CONSTANTS p1, p2, p3, x1, x2, n1, n2

MCProcOf == [x \in Execs |-> IF x = x1 THEN p1 ELSE p2]
MCPipeline == <<n1, n2>>
=============================================================================
