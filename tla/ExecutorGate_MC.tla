--------------------------- MODULE ExecutorGate_MC ---------------------------
(* The instance of ExecutorGate that TLC checks.                           *)
EXTENDS ExecutorGate

CONSTANTS p1, o1, o2, w1

=============================================================================
