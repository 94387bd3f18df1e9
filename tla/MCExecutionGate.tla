-------------------------- MODULE MCExecutionGate --------------------------
(* Small instances of ExecutionGate: tasks that come back again and again,   *)
(* each time with any mode.                                                  *)
EXTENDS ExecutionGate

CONSTANTS r1, r2, r3, r4

FourRequests == {r1, r2, r3, r4}
=============================================================================
