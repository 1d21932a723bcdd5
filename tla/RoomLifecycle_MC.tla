-------------------------- MODULE RoomLifecycle_MC --------------------------
(* The instances of RoomLifecycle that TLC checks.                         *)
EXTENDS RoomLifecycle, TLC

CONSTANTS c1, c2, r1, r2

\* The calls of the application are interchangeable (safety only).
CallsSymmetry == Permutations(Connects)

=============================================================================
