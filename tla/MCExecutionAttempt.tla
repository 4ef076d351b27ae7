------------------------- MODULE MCExecutionAttempt -------------------------
(* Three Runners in two engine processes meet on one attempt row: r1 and   *)
(* r3 are successive executions in the same process (park and wake).       *)
EXTENDS ExecutionAttempt

CONSTANTS r1, r2, r3, i1, i2

MCInstanceOf == [p \in Runners |-> IF p = r2 THEN i2 ELSE i1]
=============================================================================
