------------------------- MODULE ShutdownService_MC -------------------------
(* The instances of ShutdownService that TLC checks.                       *)
EXTENDS ShutdownService

CONSTANTS t1, k1, k2, d1, d2, s1, s2

=============================================================================
