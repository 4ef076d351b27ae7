--------------------------- MODULE MCRunLifecycle ---------------------------
(* Two engine processes and three executions of one run: x1 and x3 in p1,  *)
(* x2 in p2, so that a delivery and a wake meet in one process and in two. *)
EXTENDS RunLifecycle

CONSTANTS p1, p2, x1, x2, x3

MCProcOf == [x \in Execs |-> IF x = x2 THEN p2 ELSE p1]
=============================================================================
