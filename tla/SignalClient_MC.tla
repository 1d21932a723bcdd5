-------------------------- MODULE SignalClient_MC --------------------------
(* Instances of SignalClient for TLC: the bounds are in the configurations.*)
EXTENDS SignalClient

=============================================================================
